---- MODULE Spec2Model ----
(***************************************************************************)
(* Verified RAG pipeline of services/rag_engine: the optimist / skeptic /  *)
(* refiner verification loop of VerifiedRAGPipeline.run and                *)
(* VerifiedRAGPipeline.run_with_progress, with the retrieval gate in front *)
(* of it and the debate log behind it.                                     *)
(*                                                                         *)
(* Texts are sequences of one-character strings, so that strip(), lower()  *)
(* and the prefix similarity of the stall check are computed as the code   *)
(* computes them.  Rerank scores and distances are tenths (5 is 0.5).      *)
(***************************************************************************)
EXTENDS Integers, Sequences, FiniteSets, TLC

VARIABLES
    mode,                       \* "run" or "run_with_progress"
    max_verification_attempts,  \* self.max_verification_attempts
    session_id,                 \* TRUE iff a session id was passed
    RELEVANCE_GATE_ENABLED,     \* module setting read from the environment
    strict_mode,                \* strict_mode parameter
    has_history,                \* bool(relevant_history)
    reranked_docs,              \* what retrieval and _rerank_docs return for the query
    pc,                         \* position of the run (its suspension points)
    context_docs,               \* context_docs local of run
    current_answer,             \* state.current_answer
    attempt_count,              \* state.attempt_count
    is_final_verified,          \* state.is_final_verified
    history,                    \* state.history
    stall_count,                \* stall_count local of run
    original_draft,             \* original_draft local of run
    refined_answer,             \* refined_answer local of run
    validation_reason,          \* validation_reason local of run
    refinements_valid,          \* conjunction of the span attributes
                                \* loop.iteration_<n>.refinement_valid
    response_str,               \* response_str of the skeptic scan under way
    proposed_answer,            \* audit_req.proposed_answer of that scan
    exit_reason,                \* span attributes "result" / "loop.exit_reason"
    final_output,               \* returned answer
    sources,                    \* returned sources
    llm_calls,                  \* number of _call_llm calls per role
    events,                     \* ProgressEvents handed to the callback
    debate_log,                 \* records inserted into VerificationLog
    exception,                  \* the exception that left the run, "none" otherwise
    callback_raised,            \* TRUE once the progress callback has raised
    store,                      \* chunks of the "Document" collection
    search_session,             \* session_id argument of _search_weaviate_initial
    top_k_initial,              \* limit of the near_vector query
    search_pc,                  \* position of _search_weaviate_initial
    response_objects,           \* response.objects of the near_vector query
    initial_docs,               \* what _search_weaviate_initial returns
    tool_name,                  \* name argument of AgentPipeline._execute_tool
    rel_path,                   \* args["path"] of that call
    tool_pc,                    \* position of _execute_tool
    safe_path,                  \* safe_path local of _execute_tool
    tool_result,                \* "denied", or "touched" once the file system is asked
    _code_buddy_failures,       \* module global of pipelines/agent.py
    _code_buddy_circuit_open_until, \* module global, seconds
    now,                        \* time.time(), seconds
    call_pc,                    \* position of the call_code_buddy call
    call_attempt,               \* attempt of its retry loop
    http_clients,               \* httpx.Client objects it created
    sleeps,                     \* delays it passed to time.sleep
    call_result,                \* what it returned
    failures_recorded,          \* completed _record_code_buddy_failure calls
                                \* since the last _record_code_buddy_success
    opened_at,                  \* time of the last assignment that opened the
                                \* circuit, -1 before the first and after a success
    rec_pc,                     \* per thread: position in _record_code_buddy_*
    rec_tmp,                    \* per thread: value loaded by "+= 1"
    fn_pc,                      \* a function applied on its own: "idle" when
                                \* none is, else its name, then its outcome
    fn_args,                    \* its arguments
    fn_ret                      \* what it returned

vars == <<mode, max_verification_attempts, session_id,
          RELEVANCE_GATE_ENABLED, strict_mode,
          has_history, reranked_docs, pc, context_docs, current_answer, attempt_count,
          is_final_verified, history, stall_count, original_draft,
          refined_answer, validation_reason, refinements_valid, response_str,
          proposed_answer, exit_reason, final_output, sources, llm_calls,
          events, debate_log, exception, callback_raised,
          store, search_session, top_k_initial, search_pc, response_objects,
          initial_docs,
          tool_name, rel_path, tool_pc, safe_path, tool_result,
          _code_buddy_failures, _code_buddy_circuit_open_until, now, call_pc,
          call_attempt, http_clients, sleeps, call_result, failures_recorded,
          opened_at, rec_pc, rec_tmp,
          fn_pc, fn_args, fn_ret>>

(***************************************************************************)
(* Bounds of the model.                                                    *)
(***************************************************************************)
MaxConfigured == 6      \* configured max_verification_attempts range over -1..MaxConfigured
MaxDocs == 2            \* at most this many documents come back from the reranker
MaxTopK == 2            \* the near_vector limit ranges over 1..MaxTopK
MaxPathLen == 5         \* path arguments have at most this many characters
MaxTime == 70           \* the clock runs from 0 to MaxTime seconds
MaxFailures == 7        \* at most this many failures are recorded in a row

(***************************************************************************)
(* Program constants.                                                      *)
(***************************************************************************)
DEFAULT_MAX_VERIFICATION_ATTEMPTS == 3
MIN_VERIFICATION_ATTEMPTS == 1
MAX_VERIFICATION_ATTEMPTS_LIMIT == 5
MIN_ANSWER_LENGTH == 10
STALL_SIMILARITY_THRESHOLD == 95        \* 0.95, in hundredths
max_stalls == 2
RERANK_SCORE_THRESHOLD == 3             \* 0.3, in tenths
DISTANCE_THRESHOLD == 8                 \* 0.8, in tenths
RELEVANCE_GATE_THRESHOLD == 5           \* 0.5, in tenths
ProgressAttemptLimit == 3               \* ProgressEvent.attempt: Field(ge=1, le=3)
_CODE_BUDDY_FAILURE_THRESHOLD == 5
_CODE_BUDDY_RECOVERY_TIMEOUT == 60
max_retries == 3
base_delay == 1
NoScore == -1                           \* metadata without the key (None)

NO_RELEVANT_DOCS_MESSAGE == <<"N", "o", "d", "o", "c", "s">>
LOW_RELEVANCE_MESSAGE == <<"L", "o", "w", "r", "e", "l">>
WarningSuffix == <<"\n", "\n", "*", "(", "W", "a", "r", "n", "i", "n", "g", ")", "*">>

(***************************************************************************)
(* Text helpers: str.strip(), str.lower(), truthiness.                     *)
(***************************************************************************)
IsSpace(c) == c \in {" ", "\n", "\t"}

RECURSIVE LStrip(_)
LStrip(s) == IF s # <<>> /\ IsSpace(Head(s)) THEN LStrip(Tail(s)) ELSE s

RECURSIVE RStrip(_)
RStrip(s) == IF s # <<>> /\ IsSpace(s[Len(s)])
             THEN RStrip(SubSeq(s, 1, Len(s) - 1)) ELSE s

Strip(s) == RStrip(LStrip(s))

LowerChar(c) == CASE c = "A" -> "a" [] c = "B" -> "b" [] c = "C" -> "c"
                  [] OTHER -> c

Lower(s) == [i \in 1..Len(s) |-> LowerChar(s[i])]

Rep(c, n) == [i \in 1..n |-> c]

Min(a, b) == IF a < b THEN a ELSE b
Max(a, b) == IF a > b THEN a ELSE b

\* length of the common prefix of a and b, counted as the loop counts it
RECURSIVE MatchingPrefix(_, _, _)
MatchingPrefix(a, b, i) ==
    IF i > Min(Len(a), Len(b)) THEN 0
    ELSE IF a[i] = b[i] THEN 1 + MatchingPrefix(a, b, i + 1) ELSE 0

(***************************************************************************)
(* VerifiedRAGPipeline._is_refinement_stalled                              *)
(***************************************************************************)
_is_refinement_stalled(old_answer, new_answer) ==
    IF old_answer = <<>> \/ new_answer = <<>> THEN FALSE
    ELSE LET old_normalized == Lower(Strip(old_answer))
             new_normalized == Lower(Strip(new_answer))
             shorter == Min(Len(old_normalized), Len(new_normalized))
             longer == Max(Len(old_normalized), Len(new_normalized))
             matching == MatchingPrefix(old_normalized, new_normalized, 1)
         IN  IF old_normalized = new_normalized THEN TRUE
             ELSE IF Len(old_normalized) = 0 \/ Len(new_normalized) = 0 THEN FALSE
             ELSE IF shorter * 10 < 8 * longer THEN FALSE
             ELSE matching * 100 >= STALL_SIMILARITY_THRESHOLD * longer

(***************************************************************************)
(* VerifiedRAGPipeline._validate_refined_answer: the reason string; the    *)
(* answer is valid iff the reason is "valid".  The reason                  *)
(* "too_short_<n>_chars" is written "too_short".                           *)
(***************************************************************************)
_validate_refined_answer(answer, original) ==
    IF answer = <<>> \/ Strip(answer) = <<>> THEN "empty_answer"
    ELSE IF Len(Strip(answer)) < MIN_ANSWER_LENGTH THEN "too_short"
    ELSE IF _is_refinement_stalled(original, answer) THEN "stalled_no_change"
    ELSE "valid"

(***************************************************************************)
(* Documents as the reranker returns them: properties.source and the       *)
(* metadata keys rerank_score, distance and is_history.                    *)
(***************************************************************************)
Doc(src, sc, dist, hist) ==
    [source |-> src, score |-> sc, distance |-> dist, is_history |-> hist]

DocPool == { Doc("b.txt", 5, 4, FALSE), Doc("c.txt", 3, 6, FALSE),
             Doc("d.txt", 2, 7, FALSE), Doc("e.txt", NoScore, 8, FALSE) }

HistoryPool == { Doc("conversation_history_turn_1", 1, NoScore, TRUE) }

SeqsUpTo(S, n) == UNION { [1..k -> S] : k \in 0..n }

\* a document as the vector search or the history injector hands it on: the
\* rerank score is not attached yet
Unscored(doc) == [doc EXCEPT !.score = NoScore]

AllDocs == DocPool \cup HistoryPool
              \cup { Unscored(d) : d \in DocPool \cup HistoryPool }

\* _inject_history_as_documents: documents + history_docs
_inject_history_as_documents(documents, relevant_history) ==
    IF relevant_history = <<>> THEN documents
    ELSE documents \o relevant_history

Take(s, n) == SubSeq(s, 1, IF n < Len(s) THEN n ELSE Len(s))

\* scored_docs.sort(key=lambda x: x[0], reverse=True): stable, best first
RECURSIVE InsertByScore(_, _)
InsertByScore(doc, sorted) ==
    IF sorted = <<>> THEN <<doc>>
    ELSE IF Head(sorted).score >= doc.score
         THEN <<Head(sorted)>> \o InsertByScore(doc, Tail(sorted))
         ELSE <<doc>> \o sorted

RECURSIVE SortByScore(_, _)
SortByScore(docs, sorted) ==
    IF docs = <<>> THEN sorted
    ELSE SortByScore(Tail(docs), InsertByScore(Head(docs), sorted))

\* no model loaded, predict raising, predict returning a number of scores
\* that is not the number of passages, predict returning one score each
Rerankers == {"none", "predict_raises", "wrong_count", "predicts"}

\* ["metadata"].rerank_score = normalized_score: the metadata object of a
\* search result takes the attribute, the dict of a pseudo-document does not
MetadataTakesScore(doc) == ~doc.is_history

(***************************************************************************)
(* RerankingPipeline._rerank_docs on documents whose score field is the    *)
(* normalized score the cross-encoder gives their passage: [raised, docs]. *)
(***************************************************************************)
_rerank_docs(reranker, initial_docs_with_meta, top_k_final) ==
    IF reranker = "none" \/ initial_docs_with_meta = <<>>
          \/ reranker = "predict_raises" \/ reranker = "wrong_count"
    THEN [raised |-> FALSE,
          docs |-> Take([i \in 1..Len(initial_docs_with_meta) |->
                            Unscored(initial_docs_with_meta[i])], top_k_final)]
    ELSE LET scored_docs == Take(SortByScore(initial_docs_with_meta, <<>>),
                                 top_k_final)
         IN  IF \E i \in 1..Len(scored_docs) :
                    ~MetadataTakesScore(scored_docs[i])
             THEN [raised |-> TRUE, docs |-> <<>>]
             ELSE [raised |-> FALSE, docs |-> scored_docs]

\* documents the vector search returns and history turns handed in
ScoredPool == { d \in DocPool : d.score # NoScore }

RerankArgs(hist) ==
    [reranker : Rerankers,
     documents : SeqsUpTo(ScoredPool, MaxDocs),
     relevant_history : IF hist THEN SeqsUpTo(HistoryPool, 1) \ {<<>>}
                        ELSE {<<>>},
     top_k_final : 1..MaxDocs,
     strict_mode : BOOLEAN]

ApplyRerank(a) ==
    _rerank_docs(a.reranker,
                 _inject_history_as_documents(a.documents, a.relevant_history),
                 a.top_k_final)

\* what _rerank_docs can return when it returns
RerankedSets(hist) ==
    { ApplyRerank(a).docs : a \in { b \in RerankArgs(hist) :
                                       ~ApplyRerank(b).raised } }

RECURSIVE SelectDocs(_, _)
SelectDocs(docs, keep) ==
    IF docs = <<>> THEN <<>>
    ELSE IF Head(docs) \in keep
         THEN <<Head(docs)>> \o SelectDocs(Tail(docs), keep)
         ELSE SelectDocs(Tail(docs), keep)

\* _check_relevance_gate._get_score: a missing score counts as 0.0
_get_score(doc) == IF doc.score = NoScore THEN 0 ELSE doc.score

\* VerifiedRAGPipeline._get_rerank_score: None unless within [0, 1]
_get_rerank_score(doc) ==
    IF doc.score = NoScore \/ doc.score < 0 \/ doc.score > 10
    THEN NoScore ELSE doc.score

\* VerifiedRAGPipeline._get_distance: None unless >= 0
_get_distance(doc) ==
    IF doc.distance = NoScore \/ doc.distance < 0 THEN NoScore ELSE doc.distance

\* variant whose comparison with the threshold is exclusive
_has_valid_score_Exclusive(doc, threshold) ==
    _get_rerank_score(doc) # NoScore /\ _get_rerank_score(doc) > threshold

\* variant that asks for a score but for no threshold
_has_valid_score_AnyScore(doc, threshold) == _get_rerank_score(doc) # NoScore

_has_valid_score(doc, threshold) ==
    _get_rerank_score(doc) # NoScore /\ _get_rerank_score(doc) >= threshold

RECURSIVE BestScore(_, _)
BestScore(docs, best) ==
    IF docs = <<>> THEN best
    ELSE BestScore(Tail(docs),
                   IF _get_score(Head(docs)) > best
                   THEN _get_score(Head(docs)) ELSE best)

(***************************************************************************)
(* BaseRAGPipeline._check_relevance_gate:                                  *)
(* [docs, passed, message]; message is TRUE iff LOW_RELEVANCE_MESSAGE is   *)
(* returned (None otherwise).                                              *)
(***************************************************************************)
\* variant whose gate lets a low-scoring set through
_check_relevance_gate_Open(enabled, docs_in, hist) ==
    IF docs_in = <<>> /\ enabled /\ ~hist
    THEN [docs |-> <<>>, passed |-> FALSE, message |-> TRUE]
    ELSE [docs |-> docs_in, passed |-> TRUE, message |-> FALSE]

_check_relevance_gate(enabled, docs_in, hist) ==
    LET best_score == BestScore(docs_in, 0)
        history_only == SelectDocs(docs_in,
                            {d \in AllDocs : d.is_history})
        filtered == SelectDocs(docs_in,
                        {d \in AllDocs :
                            _get_score(d) >= RELEVANCE_GATE_THRESHOLD})
    IN  IF ~enabled
        THEN [docs |-> docs_in, passed |-> TRUE, message |-> FALSE]
        ELSE IF docs_in = <<>>
        THEN IF hist
             THEN [docs |-> <<>>, passed |-> TRUE, message |-> FALSE]
             ELSE [docs |-> <<>>, passed |-> FALSE, message |-> TRUE]
        ELSE IF best_score < RELEVANCE_GATE_THRESHOLD
        THEN IF hist
             THEN [docs |-> IF history_only # <<>> THEN history_only
                            ELSE docs_in,
                   passed |-> TRUE, message |-> FALSE]
             ELSE [docs |-> <<>>, passed |-> FALSE, message |-> TRUE]
        ELSE [docs |-> IF filtered # <<>> THEN filtered ELSE docs_in,
              passed |-> TRUE, message |-> FALSE]

\* the sources list built at the end of run / run_with_progress
FormatSources(docs) ==
    [i \in 1..Len(docs) |->
        [source |-> docs[i].source,
         distance |-> _get_distance(docs[i]),
         score |-> _get_rerank_score(docs[i])]]

(***************************************************************************)
(* Skeptic responses, described by what _extract_json and the field checks *)
(* of _execute_skeptic_scan find in them:                                  *)
(*   blank       the response is empty or whitespace only                  *)
(*   data        "dict" if _extract_json returns a dict, "none" otherwise  *)
(*   is_verified the value under "is_verified" in that dict                *)
(*   reasoning   the value under "reasoning" in that dict                  *)
(***************************************************************************)
Resp(blank, data, iv, reasoning) ==
    [blank |-> blank, data |-> data, is_verified |-> iv, reasoning |-> reasoning]

NoResponse == Resp(TRUE, "none", "missing", "missing")

ResponsePool ==
    { NoResponse,                                 \* "" / "   "
      Resp(FALSE, "none", "missing", "missing"),  \* prose, no JSON object
      Resp(FALSE, "dict", "missing", "str"),      \* {"reasoning": "..."}
      Resp(FALSE, "dict", "true", "str"),         \* {"is_verified": true, ...}
      Resp(FALSE, "dict", "false", "str"),        \* {"is_verified": false, ...}
      Resp(FALSE, "dict", "str_true", "missing"), \* {"is_verified": "True"}
      Resp(FALSE, "dict", "true", "bad") }        \* {"is_verified": true, "reasoning": 7}

Audit(iv, reasoning) == [is_verified |-> iv, reasoning |-> reasoning]

(***************************************************************************)
(* VerifiedRAGPipeline._execute_skeptic_scan, after the LLM call returned  *)
(* response: the SkepticAuditResult.  reasoning is "skeptic" for the       *)
(* skeptic's own text, "default" for "No reasoning provided by skeptic",   *)
(* and names the fail-safe branch otherwise.  A str is_verified is         *)
(* lower-cased and compared with ("true", "yes", "1"); null and a          *)
(* non-string reasoning fail the SkepticAuditResult validation, which is a *)
(* ValueError.                                                             *)
(***************************************************************************)
\* fail-open variant: an unparsable response counts as a verification
_execute_skeptic_scan_FailOpen(response) ==
    IF response.blank THEN Audit(FALSE, "empty_response")
    ELSE IF response.data = "none" THEN Audit(TRUE, "parse_error")
    ELSE IF response.is_verified = "missing" THEN Audit(TRUE, "parse_error")
    ELSE Audit(response.is_verified \in {"true", "str_true"}, "skeptic")

_execute_skeptic_scan(response) ==
    IF response.blank THEN Audit(FALSE, "empty_response")
    ELSE IF response.data = "none" THEN Audit(FALSE, "parse_error")
    ELSE IF response.is_verified = "missing" THEN Audit(FALSE, "parse_error")
    ELSE IF response.is_verified = "null" THEN Audit(FALSE, "parse_error")
    ELSE IF response.reasoning = "bad" THEN Audit(FALSE, "parse_error")
    ELSE Audit(response.is_verified \in {"true", "str_true"},
               IF response.reasoning = "missing" THEN "default" ELSE "skeptic")

(***************************************************************************)
(* Answers the optimist and the refiner can produce.                       *)
(***************************************************************************)
AnsA == Rep("a", 20)
\* same as AnsA after strip().lower() but for the last of 20 characters
AnsADot == <<" ">> \o Rep("A", 19) \o <<".", "\n">>
AnsB == Rep("b", 16)
AnsShort == <<" ">> \o Rep("c", 9) \o <<" ">>       \* 9 characters once stripped
AnsBlank == <<" ", "\n">>
AnsEmpty == <<>>

DraftPool == { AnsA, AnsEmpty }
RefinedPool == { AnsA, AnsADot, AnsB, AnsShort, AnsBlank, AnsEmpty }

(***************************************************************************)
(* Decisions of the verification loop.                                     *)
(***************************************************************************)
\* off-by-one variant of the while condition
LoopCondition_Inclusive(count, max) == count <= max

\* while state.attempt_count < self.max_verification_attempts
LoopCondition(count, max) == count < max

\* variant that refines after the last permitted audit too
MoreAttemptsRemain_Always(count, max) == count <= max

\* variant that never refines
MoreAttemptsRemain_Never(count, max) == count < 0

\* 4. Refine if more attempts remain
MoreAttemptsRemain(count, max) == count < max

\* variant that keeps the previous answer after a valid refinement
UpdatesAnswer_Inverted(reason) == reason # "valid" /\ reason # "empty_answer"

\* if is_valid or validation_reason != "empty_answer"
UpdatesAnswer(reason) == reason = "valid" \/ reason # "empty_answer"

\* variant that counts every invalid refinement as a stall
StallCountAfterCheck_CountsInvalid(count, reason) ==
    IF reason # "valid" THEN count + 1 ELSE count

\* stall_count after the "if not is_valid" block
StallCountAfterCheck(count, reason) ==
    IF reason = "stalled_no_change" THEN count + 1 ELSE count

\* the break of the stalled branch
StallBreak(count, reason) ==
    reason = "stalled_no_change" /\ count >= max_stalls

\* variant that warns on every answer
FinalOutput_AlwaysWarn(answer, verified) == answer \o WarningSuffix

\* variant that never warns
FinalOutput_NeverWarn(answer, verified) == answer

\* E. Finalize
FinalOutput(answer, verified) ==
    IF ~verified THEN answer \o WarningSuffix ELSE answer

(***************************************************************************)
(* ProgressEvent: attempt is validated by Field(ge=1, le=3); constructing  *)
(* an event outside that range raises before emit is called.               *)
(***************************************************************************)
Event(type, attempt) == [event_type |-> type, attempt |-> attempt]

ValidAttempt(attempt) == attempt >= 1 /\ attempt <= ProgressAttemptLimit

\* events after emitting evs (run emits nothing)
Emit(evs) == IF mode = "run_with_progress" THEN events \o evs ELSE events

\* TRUE iff building one of these events raises in run_with_progress
EventRaises(attempts) ==
    mode = "run_with_progress" /\ \E a \in attempts : ~ValidAttempt(a)

\* emit: "except Exception as e: logger.warning(...)" -- an exception of
\* the callback is logged and goes no further (variant: it is raised again)
emit_propagates_Reraise(callback_raises) == callback_raises

emit_propagates(callback_raises) == FALSE

\* await emit(event) for each of evs, then on to target: every event is
\* handed to the callback, which may raise on any of them
EmitThen(evs, target) ==
    /\ events' = Emit(evs)
    /\ \E callback_raises \in
            (IF mode = "run_with_progress" /\ evs # <<>>
             THEN BOOLEAN ELSE {FALSE}) :
          /\ callback_raised' = (callback_raised \/ callback_raises)
          /\ IF emit_propagates(callback_raises)
             THEN pc' = "raised" /\ exception' = "callback"
             ELSE pc' = target /\ exception' = exception

\* an exception leaves the run
Raise(exc) ==
    /\ pc' = "raised"
    /\ exception' = exc
    /\ callback_raised' = callback_raised

(***************************************************************************)
(* VerifiedRAGPipeline.__init__: bounds of max_verification_attempts.      *)
(***************************************************************************)
ClampAttempts(parsed, configured) ==
    LET c == IF parsed THEN configured ELSE DEFAULT_MAX_VERIFICATION_ATTEMPTS
    IN  IF c < MIN_VERIFICATION_ATTEMPTS THEN MIN_VERIFICATION_ATTEMPTS
        ELSE IF c > MAX_VERIFICATION_ATTEMPTS_LIMIT
        THEN MAX_VERIFICATION_ATTEMPTS_LIMIT
        ELSE c

Roles == {"optimist", "skeptic", "refiner"}

store_vars == <<store, search_session, top_k_initial, search_pc,
                response_objects, initial_docs>>

tool_vars == <<tool_name, rel_path, tool_pc, safe_path, tool_result>>

\* no tool call is under way
ToolIdle ==
    /\ tool_name = "none"
    /\ rel_path = <<>>
    /\ tool_pc = "idle"
    /\ safe_path = <<>>
    /\ tool_result = "none"

breaker_vars == <<_code_buddy_failures, _code_buddy_circuit_open_until,
                  failures_recorded, opened_at>>
call_vars == <<call_pc, call_attempt, http_clients, sleeps, call_result>>
thread_vars == <<rec_pc, rec_tmp>>

Threads == {1, 2}

\* the module as imported: circuit closed, no call and no thread under way
BreakerIdle ==
    /\ _code_buddy_failures = 0
    /\ _code_buddy_circuit_open_until = 0
    /\ now = 0
    /\ call_pc = "idle"
    /\ call_attempt = 0
    /\ http_clients = 0
    /\ sleeps = <<>>
    /\ call_result = "none"
    /\ failures_recorded = 0
    /\ opened_at = -1
    /\ rec_pc = [th \in Threads |-> "idle"]
    /\ rec_tmp = [th \in Threads |-> 0]

agent_vars == <<tool_vars, breaker_vars, now, call_vars, thread_vars>>

AgentIdle == ToolIdle /\ BreakerIdle

fn_vars == <<fn_pc, fn_args, fn_ret>>

\* no function is applied on its own
FnIdle ==
    /\ fn_pc = "idle"
    /\ fn_args = <<>>
    /\ fn_ret = <<>>

\* no vector search is under way
StoreIdle ==
    /\ store = {}
    /\ search_session = "none"
    /\ top_k_initial = 1
    /\ search_pc = "idle"
    /\ response_objects = {}
    /\ initial_docs = {}

\* the state of a run before its first step, whatever its parameters
InitRun ==
    /\ pc = "retrieve"
    /\ context_docs = <<>>
    /\ current_answer = <<>>
    /\ attempt_count = 0
    /\ is_final_verified = FALSE
    /\ history = <<>>
    /\ stall_count = 0
    /\ original_draft = <<>>
    /\ refined_answer = <<>>
    /\ validation_reason = "none"
    /\ refinements_valid = TRUE
    /\ response_str = NoResponse
    /\ proposed_answer = <<>>
    /\ exit_reason = "none"
    /\ final_output = <<>>
    /\ sources = <<>>
    /\ llm_calls = [r \in Roles |-> 0]
    /\ events = <<>>
    /\ debate_log = <<>>
    /\ exception = "none"
    /\ callback_raised = FALSE

\* every pipeline configuration, on a store that answers the query with one
\* relevant document or with none
Init ==
    /\ mode \in {"run", "run_with_progress"}
    /\ max_verification_attempts \in
          { ClampAttempts(p, c) : p \in BOOLEAN, c \in -1..MaxConfigured }
    /\ session_id \in BOOLEAN
    /\ RELEVANCE_GATE_ENABLED = TRUE
    /\ strict_mode = TRUE
    /\ has_history = FALSE
    /\ reranked_docs \in { s \in RerankedSets(FALSE) :
                              Len(s) <= 1 /\ \A i \in 1..Len(s) : s[i].score = 5 }
    /\ InitRun
    /\ FnIdle
    /\ StoreIdle
    /\ AgentIdle

\* every retrieval outcome and every retrieval parameter, for pipelines
\* configured with one or two verification attempts
InitRetrieval ==
    /\ mode \in {"run", "run_with_progress"}
    /\ max_verification_attempts \in {1, 2}
    /\ session_id = TRUE
    /\ RELEVANCE_GATE_ENABLED \in BOOLEAN
    /\ strict_mode \in BOOLEAN
    /\ has_history \in BOOLEAN
    /\ reranked_docs \in RerankedSets(has_history)
    /\ InitRun
    /\ FnIdle
    /\ StoreIdle
    /\ AgentIdle

config_vars == <<mode, max_verification_attempts, session_id,
                 RELEVANCE_GATE_ENABLED, strict_mode, has_history,
                 reranked_docs>>
state_vars == <<current_answer, attempt_count, is_final_verified, history>>
refine_vars == <<stall_count, refined_answer, validation_reason,
                 refinements_valid>>
audit_vars == <<response_str, proposed_answer>>
result_vars == <<final_output, sources>>

(***************************************************************************)
(* A. Retrieve: embedding, vector search, history injection and rerank;    *)
(* context_docs is what _rerank_docs returned.                             *)
(***************************************************************************)
Retrieve ==
    /\ pc = "retrieve"
    /\ context_docs' = reranked_docs
    /\ EmitThen(<<Event("retrieval_start", 1)>>, "gate")
    /\ UNCHANGED <<fn_vars, config_vars, store_vars, agent_vars, state_vars, refine_vars, audit_vars,
                   result_vars, original_draft, exit_reason, llm_calls,
                   debate_log>>

(***************************************************************************)
(* Relevance gate, strict-mode filter and the empty-context check, up to   *)
(* the draft call or an early return.                                      *)
(***************************************************************************)
GateAndFilter ==
    /\ pc = "gate"
    /\ LET gate == _check_relevance_gate(RELEVANCE_GATE_ENABLED,
                                         context_docs, has_history)
           relevant_docs == SelectDocs(gate.docs,
                               {d \in AllDocs :
                                   _has_valid_score(d, RERANK_SCORE_THRESHOLD)})
           kept == IF strict_mode THEN relevant_docs ELSE gate.docs
       IN  IF ~gate.passed /\ gate.message
           THEN /\ context_docs' = gate.docs
                /\ exit_reason' = "relevance_gate_failed"
                /\ final_output' = LOW_RELEVANCE_MESSAGE
                /\ sources' = <<>>
                /\ EmitThen(<<Event("retrieval_complete", 1)>>, "done")
           ELSE IF strict_mode /\ relevant_docs = <<>>
           THEN /\ context_docs' = gate.docs
                /\ exit_reason' = "no_relevant_docs"
                /\ final_output' = NO_RELEVANT_DOCS_MESSAGE
                /\ sources' = <<>>
                /\ EmitThen(<<Event("retrieval_complete", 1)>>, "done")
           ELSE IF kept = <<>>
           THEN /\ context_docs' = kept
                /\ exit_reason' = "no_context"
                /\ final_output' = NO_RELEVANT_DOCS_MESSAGE
                /\ sources' = <<>>
                /\ EmitThen(<<Event("retrieval_complete", 1)>>, "done")
           ELSE /\ context_docs' = kept
                /\ EmitThen(<<Event("retrieval_complete", 1),
                              Event("draft_start", 1)>>, "draft")
                /\ UNCHANGED <<exit_reason, result_vars>>
    /\ UNCHANGED <<fn_vars, config_vars, store_vars, agent_vars, state_vars, refine_vars, audit_vars,
                   original_draft, llm_calls, debate_log>>

(***************************************************************************)
(* B. Optimist draft and C. the initial VerificationState.                 *)
(***************************************************************************)
Draft ==
    /\ pc = "draft"
    /\ \E initial_answer \in DraftPool :
          /\ current_answer' = initial_answer
          /\ original_draft' = initial_answer
    /\ llm_calls' = [llm_calls EXCEPT !["optimist"] = @ + 1]
    /\ EmitThen(<<Event("draft_complete", 1)>>,
                IF LoopCondition(attempt_count, max_verification_attempts)
                THEN "audit" ELSE "finalize")
    /\ UNCHANGED <<fn_vars, config_vars, store_vars, agent_vars, context_docs, attempt_count, is_final_verified,
                   history, refine_vars, audit_vars, result_vars, exit_reason,
                   debate_log>>

(***************************************************************************)
(* D. The skeptic call of one pass of the loop: the audit request on       *)
(* current_answer and the response of the LLM.                             *)
(***************************************************************************)
SkepticCall ==
    /\ pc = "audit"
    /\ LoopCondition(attempt_count, max_verification_attempts)
    /\ LET attempt_num == attempt_count + 1
       IN  IF EventRaises({attempt_num})
           THEN /\ Raise("ValidationError")
                /\ UNCHANGED <<audit_vars, llm_calls, events>>
           ELSE /\ \E response \in ResponsePool : response_str' = response
                /\ proposed_answer' = current_answer
                /\ llm_calls' = [llm_calls EXCEPT !["skeptic"] = @ + 1]
                /\ EmitThen(<<Event("skeptic_audit_start", attempt_num)>>,
                            "scan")
    /\ UNCHANGED <<fn_vars, config_vars, store_vars, agent_vars, context_docs, state_vars, refine_vars,
                   result_vars, original_draft, exit_reason, debate_log>>

(***************************************************************************)
(* The rest of the pass up to the refiner call: the response is parsed to  *)
(* an audit, add_audit, the verdict and the choice between refining and    *)
(* leaving the loop.                                                       *)
(***************************************************************************)
add_audit(hist, audit) == Append(hist, audit)

SkepticVerdict ==
    /\ pc = "scan"
    /\ LET audit_result == _execute_skeptic_scan(response_str)
           attempt_num == attempt_count + 1
       IN  /\ history' = add_audit(history, audit_result)
           /\ attempt_count' = attempt_count + 1
           /\ current_answer' = current_answer
           /\ IF audit_result.is_verified
              THEN /\ is_final_verified' = TRUE
                   /\ exit_reason' = exit_reason
                   /\ EmitThen(<<Event("skeptic_audit_complete", attempt_num)>>,
                               "finalize")
              ELSE IF MoreAttemptsRemain(attempt_count',
                                         max_verification_attempts)
              THEN /\ is_final_verified' = is_final_verified
                   /\ exit_reason' = exit_reason
                   /\ EmitThen(<<Event("skeptic_audit_complete", attempt_num),
                                 Event("refinement_start", attempt_num)>>,
                               "refine")
              ELSE /\ is_final_verified' = is_final_verified
                   /\ exit_reason' = "max_attempts_reached"
                   /\ EmitThen(<<Event("skeptic_audit_complete", attempt_num)>>,
                               IF LoopCondition(attempt_count',
                                                max_verification_attempts)
                               THEN "audit" ELSE "finalize")
    /\ response_str' = NoResponse
    /\ proposed_answer' = <<>>
    /\ UNCHANGED <<fn_vars, config_vars, store_vars, agent_vars, context_docs, refine_vars, result_vars,
                   original_draft, llm_calls, debate_log>>

(***************************************************************************)
(* The refiner call, the validation of its answer and the update of        *)
(* current_answer and stall_count, up to the next skeptic call or the exit *)
(* from the loop.                                                          *)
(***************************************************************************)
Refine ==
    /\ pc = "refine"
    /\ \E refined \in RefinedPool :
       LET reason == _validate_refined_answer(refined, current_answer)
           counted == StallCountAfterCheck(stall_count, reason)
           attempt_num == attempt_count
       IN  /\ refined_answer' = refined
           /\ validation_reason' = reason
           /\ refinements_valid' = (refinements_valid /\ reason = "valid")
           /\ llm_calls' = [llm_calls EXCEPT !["refiner"] = @ + 1]
           /\ IF StallBreak(counted, reason)
              THEN \* break
                   /\ stall_count' = counted
                   /\ current_answer' = current_answer
                   /\ exit_reason' = "refinement_stalled"
                   /\ EmitThen(<<Event("refinement_complete", attempt_num)>>,
                               "finalize")
              ELSE IF reason = "empty_answer"
              THEN \* continue
                   /\ stall_count' = counted
                   /\ current_answer' = current_answer
                   /\ exit_reason' = "empty_refinement"
                   /\ EmitThen(<<Event("refinement_complete", attempt_num)>>,
                               IF LoopCondition(attempt_count,
                                                max_verification_attempts)
                               THEN "audit" ELSE "finalize")
              ELSE /\ IF UpdatesAnswer(reason)
                      THEN /\ current_answer' = refined
                           /\ stall_count' = 0
                      ELSE /\ current_answer' = current_answer
                           /\ stall_count' = counted
                   /\ exit_reason' = exit_reason
                   /\ EmitThen(
                        (IF reason = "stalled_no_change"
                         THEN <<Event("refinement_complete", attempt_num)>>
                         ELSE <<>>)
                        \o (IF UpdatesAnswer(reason)
                            THEN <<Event("refinement_complete", attempt_num)>>
                            ELSE <<>>),
                        IF LoopCondition(attempt_count,
                                         max_verification_attempts)
                        THEN "audit" ELSE "finalize")
    /\ UNCHANGED <<fn_vars, config_vars, store_vars, agent_vars, context_docs, attempt_count, is_final_verified,
                   history, audit_vars, result_vars, original_draft,
                   debate_log>>

(***************************************************************************)
(* E. Finalize: the answer and the sources, up to the debate log or the    *)
(* return.                                                                 *)
(***************************************************************************)
\* variant that logs every run
LogsDebate_Always(session) == TRUE

\* if session_id: await self._log_debate(...)
LogsDebate(session) == session

Finalize ==
    /\ pc = "finalize"
    /\ final_output' = FinalOutput(current_answer, is_final_verified)
    /\ sources' = FormatSources(context_docs)
    /\ IF EventRaises({attempt_count})
       THEN /\ Raise("ValidationError")
            /\ events' = events
       ELSE EmitThen(<<Event("verification_complete", attempt_count)>>,
                     IF LogsDebate(session_id) THEN "log" ELSE "done")
    /\ UNCHANGED <<fn_vars, config_vars, store_vars, agent_vars, context_docs, state_vars, refine_vars,
                   audit_vars, original_draft, exit_reason, llm_calls,
                   debate_log>>

(***************************************************************************)
(* _log_debate: one record inserted, unless the store is disconnected or   *)
(* the insert raises; either way the run returns.                          *)
(***************************************************************************)
DebateRecord ==
    [draft_answer |-> original_draft,
     skeptic_critique |-> IF history # <<>>
                          THEN history[Len(history)].reasoning ELSE "",
     final_answer |-> final_output,
     was_refined |-> Len(history) > 1,
     is_verified |-> is_final_verified,
     attempt_count |-> attempt_count]

\* variant of _log_debate without its except clauses
_log_debate_raises_Unguarded(connected, inserted) == connected /\ ~inserted

\* _log_debate: returns early when not connected; every Exception of the
\* insert is logged by one of its except clauses
_log_debate_raises(connected, inserted) == FALSE

LogDebate ==
    /\ pc = "log"
    /\ \E connected \in BOOLEAN, inserted \in BOOLEAN :
          /\ debate_log' = IF connected /\ inserted
                           THEN Append(debate_log, DebateRecord)
                           ELSE debate_log
          /\ IF _log_debate_raises(connected, inserted)
             THEN Raise("WeaviateBaseError")
             ELSE /\ pc' = "done"
                  /\ UNCHANGED <<exception, callback_raised>>
    /\ UNCHANGED <<fn_vars, config_vars, store_vars, agent_vars, context_docs, state_vars, refine_vars,
                   audit_vars, result_vars, original_draft, exit_reason,
                   llm_calls, events>>

(***************************************************************************)
(* An outbound call (embedding, vector search, LLM) raises: the exception  *)
(* leaves run.                                                             *)
(***************************************************************************)
OutboundCallFails ==
    /\ pc \in {"retrieve", "draft", "audit", "refine"}
    /\ ~(pc = "audit" /\ EventRaises({attempt_count + 1}))
    /\ llm_calls' = [llm_calls EXCEPT
          ![CASE pc = "draft" -> "optimist" [] pc = "audit" -> "skeptic"
              [] pc = "refine" -> "refiner" [] OTHER -> "optimist"] =
                IF pc = "retrieve" THEN @ ELSE @ + 1]
    /\ events' = IF pc = "audit"
                 THEN Emit(<<Event("skeptic_audit_start", attempt_count + 1)>>)
                 ELSE IF pc = "retrieve"
                 THEN Emit(<<Event("retrieval_start", 1)>>)
                 ELSE events
    /\ Raise("RuntimeError")
    /\ UNCHANGED <<fn_vars, config_vars, store_vars, agent_vars, context_docs, state_vars, refine_vars,
                   audit_vars, result_vars, original_draft, exit_reason,
                   debate_log>>

(***************************************************************************)
(* The task running the pipeline is cancelled while it is suspended at an  *)
(* await: an outbound call, the progress callback (whose CancelledError is *)
(* not an Exception, so emit lets it through) or the insert of the debate  *)
(* record, which runs in a worker thread and may complete all the same.    *)
(***************************************************************************)
SuspensionPoints ==
    {"retrieve", "draft", "audit", "refine", "log"}
        \cup (IF mode = "run_with_progress"
              THEN {"gate", "scan", "finalize"} ELSE {})

Cancelled ==
    /\ pc \in SuspensionPoints
    /\ Raise("CancelledError")
    /\ \E inserted \in BOOLEAN :
          debate_log' = IF pc = "log" /\ inserted
                        THEN Append(debate_log, DebateRecord)
                        ELSE debate_log
    /\ UNCHANGED <<fn_vars, config_vars, store_vars, agent_vars, context_docs, state_vars, refine_vars,
                   audit_vars, result_vars, original_draft, exit_reason,
                   llm_calls, events>>

Next ==
    \/ Retrieve
    \/ GateAndFilter
    \/ Draft
    \/ SkepticCall
    \/ SkepticVerdict
    \/ Refine
    \/ Finalize
    \/ LogDebate
    \/ OutboundCallFails
    \/ Cancelled

Spec == Init /\ [][Next]_vars

SpecRetrieval == InitRetrieval /\ [][Next]_vars

\* the steps of a run whose outbound calls all return and that nobody
\* cancels; the event loop resumes the run whenever a call has returned
NextReturns ==
    \/ Retrieve
    \/ GateAndFilter
    \/ Draft
    \/ SkepticCall
    \/ SkepticVerdict
    \/ Refine
    \/ Finalize
    \/ LogDebate

SpecTermination == Init /\ [][NextReturns]_vars /\ WF_vars(NextReturns)

(***************************************************************************)
(* Session-scoped vector search with parent-document expansion:            *)
(* _search_weaviate_initial of StandardRAGPipeline and RerankingPipeline   *)
(* (the two differ only in the attribute that holds the limit).            *)
(* A chunk is [id, in_session, parent_source]; in_session is "none" for a  *)
(* global chunk (reference count 0) and parent_source is "none" for a      *)
(* chunk without that property.                                            *)
(***************************************************************************)
Chunk(id, sess, parent) ==
    [id |-> id, in_session |-> sess, parent_source |-> parent]

ChunkPool ==
    { Chunk("a1", "none", "p1"), Chunk("b1", "S1", "p2"),
      Chunk("b2", "S1", "p1"),   Chunk("c1", "S2", "p2"),
      Chunk("o1", "none", "none") }

SessionIds == {"none", "S1", "S2", "S3"}      \* "none": no session id given

\* no pipeline run is under way
PipelineIdle ==
    /\ mode = "run"
    /\ max_verification_attempts = DEFAULT_MAX_VERIFICATION_ATTEMPTS
    /\ session_id = FALSE
    /\ RELEVANCE_GATE_ENABLED = TRUE
    /\ strict_mode = TRUE
    /\ has_history = FALSE
    /\ reranked_docs = <<>>
    /\ pc = "idle"
    /\ context_docs = <<>>
    /\ current_answer = <<>>
    /\ attempt_count = 0
    /\ is_final_verified = FALSE
    /\ history = <<>>
    /\ stall_count = 0
    /\ original_draft = <<>>
    /\ refined_answer = <<>>
    /\ validation_reason = "none"
    /\ refinements_valid = TRUE
    /\ response_str = NoResponse
    /\ proposed_answer = <<>>
    /\ exit_reason = "none"
    /\ final_output = <<>>
    /\ sources = <<>>
    /\ llm_calls = [r \in Roles |-> 0]
    /\ events = <<>>
    /\ debate_log = <<>>
    /\ exception = "none"
    /\ callback_raised = FALSE

pipeline_vars == <<config_vars, pc, context_docs, state_vars, refine_vars,
                   audit_vars, result_vars, original_draft, exit_reason,
                   llm_calls, events, debate_log, exception,
                   callback_raised>>

\* BaseRAGPipeline._get_session_aware_filter: the chunks the filter lets
\* through; a failure while building the session branch leaves the global
\* filter
_get_session_aware_filter(session_uuid, build_fails) ==
    IF session_uuid = "none" \/ build_fails
    THEN { d \in store : d.in_session = "none" }
    ELSE { d \in store : d.in_session = "none" \/ d.in_session = session_uuid }

\* the parent_source values of the matched chunks
parent_sources(objects) ==
    { d.parent_source : d \in { o \in objects : o.parent_source # "none" } }

\* fetch_objects(filters = parent_source contains_any parent_sources)
fetch_objects(parents) ==
    { d \in store : d.parent_source \in parents }

InitSearch ==
    /\ store \in SUBSET ChunkPool
    /\ search_session \in SessionIds
    /\ top_k_initial \in 1..MaxTopK
    /\ search_pc = "start"
    /\ response_objects = {}
    /\ initial_docs = {}
    /\ PipelineIdle
    /\ FnIdle
    /\ AgentIdle

\* if not query_vector: return []
EmptyVector ==
    /\ search_pc = "start"
    /\ search_pc' = "returned"
    /\ initial_docs' = {}
    /\ UNCHANGED <<fn_vars, pipeline_vars, agent_vars, store, search_session, top_k_initial,
                   response_objects>>

\* 1. near_vector with the session-aware filter: the limit nearest chunks
\* among those the filter lets through
NearVector ==
    /\ search_pc = "start"
    /\ \E build_fails \in BOOLEAN :
         LET allowed == _get_session_aware_filter(search_session, build_fails)
             n == IF Cardinality(allowed) < top_k_initial
                  THEN Cardinality(allowed) ELSE top_k_initial
         IN  \E objs \in SUBSET allowed :
                /\ Cardinality(objs) = n
                /\ response_objects' = objs
    /\ search_pc' = "matched"
    /\ UNCHANGED <<fn_vars, pipeline_vars, agent_vars, store, search_session, top_k_initial,
                   initial_docs>>

\* 2./3. parent sources of the matched chunks and the fetch of every chunk
\* of those parents
ExpandParents ==
    /\ search_pc = "matched"
    /\ initial_docs' =
          IF response_objects = {} THEN {}
          ELSE IF parent_sources(response_objects) = {} THEN response_objects
          ELSE fetch_objects(parent_sources(response_objects))
    /\ search_pc' = "returned"
    /\ UNCHANGED <<fn_vars, pipeline_vars, agent_vars, store, search_session, top_k_initial,
                   response_objects>>

\* a query of the store raises: RuntimeError leaves the search
SearchFails ==
    /\ search_pc \in {"start", "matched"}
    /\ search_pc' = "raised"
    /\ UNCHANGED <<fn_vars, pipeline_vars, agent_vars, store, search_session, top_k_initial,
                   response_objects, initial_docs>>

NextSearch ==
    \/ EmptyVector
    \/ NearVector
    \/ ExpandParents
    \/ SearchFails

SpecSearch == InitSearch /\ [][NextSearch]_vars

(***************************************************************************)
(* File system tools of AgentPipeline._execute_tool (list_files and        *)
(* read_file).  Paths are sequences of characters; os.path.join and        *)
(* os.path.normpath are computed as posixpath computes them.               *)
(***************************************************************************)
project_root == <<"/", "a", "/", "c">>          \* stands for "/app/codebase"

PathChars == {"/", ".", "c", "x"}

PathPool == SeqsUpTo(PathChars, MaxPathLen)

\* str.startswith
StartsWith(s, prefix) ==
    Len(prefix) <= Len(s) /\ SubSeq(s, 1, Len(prefix)) = prefix

\* os.path.join(a, b)
PathJoin(a, b) ==
    IF StartsWith(b, <<"/">>) THEN b
    ELSE IF a = <<>> \/ a[Len(a)] = "/" THEN a \o b
    ELSE a \o <<"/">> \o b

\* path.split("/")
RECURSIVE SplitSlash(_, _)
SplitSlash(s, comp) ==
    IF s = <<>> THEN <<comp>>
    ELSE IF Head(s) = "/" THEN <<comp>> \o SplitSlash(Tail(s), <<>>)
    ELSE SplitSlash(Tail(s), Append(comp, Head(s)))

\* the loop of normpath over the components
RECURSIVE NormComps(_, _, _)
NormComps(comps, new_comps, initial_slashes) ==
    IF comps = <<>> THEN new_comps
    ELSE LET comp == Head(comps)
             dotdot == <<".", ".">>
         IN  IF comp = <<>> \/ comp = <<".">>
             THEN NormComps(Tail(comps), new_comps, initial_slashes)
             ELSE IF \/ comp # dotdot
                     \/ (initial_slashes = 0 /\ new_comps = <<>>)
                     \/ (new_comps # <<>> /\ new_comps[Len(new_comps)] = dotdot)
             THEN NormComps(Tail(comps), Append(new_comps, comp), initial_slashes)
             ELSE IF new_comps # <<>>
             THEN NormComps(Tail(comps),
                            SubSeq(new_comps, 1, Len(new_comps) - 1),
                            initial_slashes)
             ELSE NormComps(Tail(comps), new_comps, initial_slashes)

\* "/".join(comps)
RECURSIVE JoinSlash(_)
JoinSlash(comps) ==
    IF comps = <<>> THEN <<>>
    ELSE IF Len(comps) = 1 THEN Head(comps)
    ELSE Head(comps) \o <<"/">> \o JoinSlash(Tail(comps))

\* os.path.normpath
normpath(path) ==
    IF path = <<>> THEN <<".">>
    ELSE LET initial_slashes ==
                 IF ~StartsWith(path, <<"/">>) THEN 0
                 ELSE IF StartsWith(path, <<"/", "/">>)
                         /\ ~StartsWith(path, <<"/", "/", "/">>)
                 THEN 2 ELSE 1
             joined == JoinSlash(NormComps(SplitSlash(path, <<>>), <<>>,
                                           initial_slashes))
             out == Rep("/", initial_slashes) \o joined
         IN  IF out = <<>> THEN <<".">> ELSE out

\* if not safe_path.startswith(self.project_root): return "Error: Access denied"
PathAllowed(path) == StartsWith(path, project_root)

InitTool ==
    /\ tool_name \in {"list_files", "read_file"}
    /\ rel_path \in PathPool
    /\ tool_pc = "start"
    /\ safe_path = <<>>
    /\ tool_result = "none"
    /\ PipelineIdle
    /\ FnIdle
    /\ StoreIdle
    /\ BreakerIdle

\* the access check of the file system tools
CheckPath ==
    /\ tool_pc = "start"
    /\ safe_path' = normpath(PathJoin(project_root, rel_path))
    /\ tool_result' = IF PathAllowed(safe_path') THEN "none" ELSE "denied"
    /\ tool_pc' = IF PathAllowed(safe_path') THEN "checked" ELSE "returned"
    /\ UNCHANGED <<fn_vars, pipeline_vars, store_vars, breaker_vars, now, call_vars,
                   thread_vars, tool_name, rel_path>>

\* os.path.isdir / os.listdir for list_files, os.path.exists / open for
\* read_file
TouchFileSystem ==
    /\ tool_pc = "checked"
    /\ tool_result' = "touched"
    /\ tool_pc' = "returned"
    /\ UNCHANGED <<fn_vars, pipeline_vars, store_vars, breaker_vars, now, call_vars,
                   thread_vars, tool_name, rel_path, safe_path>>

NextTool ==
    \/ CheckPath
    \/ TouchFileSystem

SpecTool == InitTool /\ [][NextTool]_vars

(***************************************************************************)
(* call_code_buddy and its circuit breaker (pipelines/agent.py).  Time is  *)
(* in seconds.                                                             *)
(***************************************************************************)
\* variant that does not look at the clock
_is_circuit_open_NoClock(open_until, time) == open_until > 0

\* if _code_buddy_circuit_open_until > 0 and time.time() < ..._open_until
_is_circuit_open(open_until, time) == open_until > 0 /\ time < open_until

\* variant with a strict comparison against the threshold
FailureOpensCircuit_Strict(failures) ==
    failures > _CODE_BUDDY_FAILURE_THRESHOLD

\* if _code_buddy_failures >= _CODE_BUDDY_FAILURE_THRESHOLD
FailureOpensCircuit(failures) ==
    failures >= _CODE_BUDDY_FAILURE_THRESHOLD

\* variant that starts a new count once the recovery timeout has expired
FailuresCounted_ResetOnExpiry(failures, open_until, time) ==
    IF open_until > 0 /\ time >= open_until THEN 1 ELSE failures + 1

\* _code_buddy_failures += 1
FailuresCounted(failures, open_until, time) == failures + 1

\* time.time() + _CODE_BUDDY_RECOVERY_TIMEOUT
OpenUntil(time) == time + _CODE_BUDDY_RECOVERY_TIMEOUT

RECURSIVE Pow2(_)
Pow2(n) == IF n = 0 THEN 1 ELSE 2 * Pow2(n - 1)

\* variant without the exponent
RetryDelay_Constant(n) == base_delay

\* delay = base_delay * (2 ** attempt)
RetryDelay(n) == base_delay * Pow2(n)

\* if attempt < max_retries - 1
MoreRetries(n) == n < max_retries - 1

\* for attempt in range(max_retries)
LoopContinues(n) == n + 1 < max_retries

\* outcomes of one attempt: status 200, status 200 with a body that is not
\* JSON, another status, httpx.TimeoutException, httpx.ConnectError, any
\* other exception
Outcomes == {"200", "200_bad_json", "status", "timeout", "connect", "exception"}

ElapseSteps == {1, 30, 60}

InitBreaker ==
    /\ BreakerIdle
    /\ ToolIdle
    /\ PipelineIdle
    /\ FnIdle
    /\ StoreIdle

\* the globals after _record_code_buddy_failure ran to its end at this time
RecordFailure ==
    /\ _code_buddy_failures' =
          FailuresCounted(_code_buddy_failures,
                          _code_buddy_circuit_open_until, now)
    /\ failures_recorded' = failures_recorded + 1
    /\ IF FailureOpensCircuit(_code_buddy_failures')
       THEN /\ _code_buddy_circuit_open_until' = OpenUntil(now)
            /\ opened_at' = now
       ELSE UNCHANGED <<_code_buddy_circuit_open_until, opened_at>>

\* the globals after _record_code_buddy_success
RecordSuccess ==
    /\ _code_buddy_failures' = 0
    /\ _code_buddy_circuit_open_until' = 0
    /\ failures_recorded' = 0
    /\ opened_at' = -1

\* entry of call_code_buddy: the fallback payload while the circuit is open
CallStart ==
    /\ call_pc \in {"idle", "returned"}
    /\ call_attempt' = 0
    /\ http_clients' = 0
    /\ sleeps' = <<>>
    /\ IF _is_circuit_open(_code_buddy_circuit_open_until, now)
       THEN call_result' = "circuit_open" /\ call_pc' = "returned"
       ELSE call_result' = "none" /\ call_pc' = "attempt"
    /\ UNCHANGED <<fn_vars, pipeline_vars, store_vars, tool_vars, breaker_vars, now,
                   thread_vars>>

\* one pass of the retry loop: with httpx.Client(...) and the request
HttpAttempt ==
    /\ call_pc = "attempt"
    /\ http_clients' = http_clients + 1
    /\ \E outcome \in Outcomes :
         CASE outcome = "200" ->
                /\ RecordSuccess
                /\ call_result' = "response"
                /\ call_pc' = "returned"
                /\ UNCHANGED <<call_attempt, sleeps, now>>
           [] outcome = "200_bad_json" ->
                /\ failures_recorded < MaxFailures
                /\ _code_buddy_failures' = 1
                /\ failures_recorded' = 1
                /\ _code_buddy_circuit_open_until' =
                      IF FailureOpensCircuit(1) THEN OpenUntil(now) ELSE 0
                /\ opened_at' = IF FailureOpensCircuit(1) THEN now ELSE -1
                /\ call_result' = "unexpected_error"
                /\ call_pc' = "returned"
                /\ UNCHANGED <<call_attempt, sleeps, now>>
           [] outcome = "status" ->
                /\ failures_recorded < MaxFailures
                /\ RecordFailure
                /\ call_result' = "http_error"
                /\ call_pc' = "returned"
                /\ UNCHANGED <<call_attempt, sleeps, now>>
           [] outcome \in {"timeout", "connect"} ->
                /\ failures_recorded < MaxFailures
                /\ RecordFailure
                /\ IF MoreRetries(call_attempt)
                   THEN /\ now + RetryDelay(call_attempt) <= MaxTime
                        /\ sleeps' = Append(sleeps, RetryDelay(call_attempt))
                        /\ now' = now + RetryDelay(call_attempt)
                        /\ call_attempt' = call_attempt + 1
                        /\ IF LoopContinues(call_attempt)
                           THEN UNCHANGED <<call_pc, call_result>>
                           ELSE call_result' = "None" /\ call_pc' = "returned"
                   ELSE /\ call_result' = "connection_failed"
                        /\ call_pc' = "returned"
                        /\ UNCHANGED <<call_attempt, sleeps, now>>
           [] outcome = "exception" ->
                /\ failures_recorded < MaxFailures
                /\ RecordFailure
                /\ call_result' = "unexpected_error"
                /\ call_pc' = "returned"
                /\ UNCHANGED <<call_attempt, sleeps, now>>
    /\ UNCHANGED <<fn_vars, pipeline_vars, store_vars, tool_vars, thread_vars>>

\* time passes
Elapse ==
    /\ \E d \in ElapseSteps :
         /\ now + d <= MaxTime
         /\ now' = now + d
    /\ UNCHANGED <<fn_vars, pipeline_vars, store_vars, tool_vars, breaker_vars,
                   call_vars, thread_vars>>

NextBreaker ==
    \/ CallStart
    \/ HttpAttempt
    \/ Elapse

SpecBreaker == InitBreaker /\ [][NextBreaker]_vars

(***************************************************************************)
(* _record_code_buddy_failure and _record_code_buddy_success called from   *)
(* several threads.  The functions take no lock, so a thread can be        *)
(* preempted between the load and the store of "_code_buddy_failures += 1" *)
(* and between the statements of either function.                          *)
(***************************************************************************)
InitThreads == InitBreaker

\* _code_buddy_failures += 1: the load of the global
FailureLoad(th) ==
    /\ rec_pc[th] = "idle"
    /\ failures_recorded < MaxFailures
    /\ _code_buddy_failures < MaxFailures
    /\ rec_tmp' = [rec_tmp EXCEPT ![th] = _code_buddy_failures]
    /\ rec_pc' = [rec_pc EXCEPT ![th] = "failure_loaded"]
    /\ UNCHANGED <<fn_vars, pipeline_vars, store_vars, tool_vars, breaker_vars, now,
                   call_vars>>

\* _code_buddy_failures += 1: the store of the incremented value
FailureStore(th) ==
    /\ rec_pc[th] = "failure_loaded"
    /\ _code_buddy_failures' = rec_tmp[th] + 1
    /\ rec_pc' = [rec_pc EXCEPT ![th] = "failure_stored"]
    /\ UNCHANGED <<fn_vars, pipeline_vars, store_vars, tool_vars, now, call_vars,
                   _code_buddy_circuit_open_until, failures_recorded,
                   opened_at, rec_tmp>>

\* if _code_buddy_failures >= threshold: open the circuit
FailureCheck(th) ==
    /\ rec_pc[th] = "failure_stored"
    /\ IF FailureOpensCircuit(_code_buddy_failures)
       THEN /\ _code_buddy_circuit_open_until' = OpenUntil(now)
            /\ opened_at' = now
       ELSE UNCHANGED <<_code_buddy_circuit_open_until, opened_at>>
    /\ failures_recorded' = failures_recorded + 1
    /\ rec_pc' = [rec_pc EXCEPT ![th] = "idle"]
    /\ UNCHANGED <<fn_vars, pipeline_vars, store_vars, tool_vars, now, call_vars,
                   _code_buddy_failures, rec_tmp>>

\* _record_code_buddy_success: _code_buddy_failures = 0
SuccessResetFailures(th) ==
    /\ rec_pc[th] = "idle"
    /\ _code_buddy_failures' = 0
    /\ failures_recorded' = 0
    /\ rec_pc' = [rec_pc EXCEPT ![th] = "success_reset"]
    /\ UNCHANGED <<fn_vars, pipeline_vars, store_vars, tool_vars, now, call_vars,
                   _code_buddy_circuit_open_until, opened_at, rec_tmp>>

\* _record_code_buddy_success: _code_buddy_circuit_open_until = 0.0
SuccessResetOpenUntil(th) ==
    /\ rec_pc[th] = "success_reset"
    /\ _code_buddy_circuit_open_until' = 0
    /\ opened_at' = -1
    /\ rec_pc' = [rec_pc EXCEPT ![th] = "idle"]
    /\ UNCHANGED <<fn_vars, pipeline_vars, store_vars, tool_vars, now, call_vars,
                   _code_buddy_failures, failures_recorded, rec_tmp>>

NextThreads ==
    \E th \in Threads :
        \/ FailureLoad(th)
        \/ FailureStore(th)
        \/ FailureCheck(th)
        \/ SuccessResetFailures(th)
        \/ SuccessResetOpenUntil(th)

SpecThreads == InitThreads /\ [][NextThreads]_vars

(***************************************************************************)
(* The rerank step applied on its own to every pool of documents the       *)
(* vector search and the history injector can hand it.                     *)
(***************************************************************************)
InitRerank ==
    /\ fn_pc = "_rerank_docs"
    /\ fn_args \in RerankArgs(TRUE) \cup RerankArgs(FALSE)
    /\ fn_ret = <<>>
    /\ PipelineIdle
    /\ StoreIdle
    /\ AgentIdle

RerankDocs ==
    /\ fn_pc = "_rerank_docs"
    /\ fn_ret' = ApplyRerank(fn_args).docs
    /\ fn_pc' = IF ApplyRerank(fn_args).raised
                THEN "AttributeError" ELSE "returned"
    /\ UNCHANGED <<fn_args, pipeline_vars, store_vars, agent_vars>>

(***************************************************************************)
(* RerankingPipeline.run after the rerank: the strict-mode filter, whose   *)
(* test is  d.get("metadata") and hasattr(d["metadata"], "rerank_score")   *)
(* and d["metadata"].rerank_score >= RERANK_SCORE_THRESHOLD.  A dict has   *)
(* no such attribute; the metadata object of a search result has it, and   *)
(* comparing its None with a float is a TypeError.                         *)
(***************************************************************************)
StrictFilterRaises(docs) ==
    \E i \in 1..Len(docs) : ~docs[i].is_history /\ docs[i].score = NoScore

StrictFilter(docs) ==
    SelectDocs(docs, {d \in AllDocs :
                        ~d.is_history /\ d.score >= RERANK_SCORE_THRESHOLD})

\* what a run returns: the answer, the documents behind its sources and
\* the number of LLM calls it made
Outcome(answer, docs, calls) ==
    [answer |-> answer, docs |-> docs, llm_calls |-> calls]

\* return NO_RELEVANT_DOCS_MESSAGE, []
Refuse ==
    /\ fn_pc' = "refused"
    /\ fn_ret' = Outcome(NO_RELEVANT_DOCS_MESSAGE, <<>>, 0)

\* _build_prompt, _call_llm, return answer, sources
Generate(docs) ==
    /\ fn_pc' = "generate"
    /\ \E answer \in DraftPool : fn_ret' = Outcome(answer, docs, 1)

RerankingRunFilter ==
    /\ fn_pc = "returned"
    /\ IF ~fn_args.strict_mode
       THEN Generate(fn_ret)
       ELSE IF StrictFilterRaises(fn_ret)
       THEN fn_pc' = "TypeError" /\ fn_ret' = fn_ret
       ELSE IF StrictFilter(fn_ret) = <<>>
       THEN Refuse
       ELSE Generate(StrictFilter(fn_ret))
    /\ UNCHANGED <<fn_args, pipeline_vars, store_vars, agent_vars>>

NextRerank == RerankDocs \/ RerankingRunFilter

(***************************************************************************)
(* StandardRAGPipeline.run after the vector search: the strict-mode filter *)
(* on the distance, the refusal, the history injection and the generation. *)
(***************************************************************************)
StandardArgs ==
    [documents : SeqsUpTo(DocPool, MaxDocs),
     relevant_history : SeqsUpTo(HistoryPool, 1),
     strict_mode : BOOLEAN]

InitStandard ==
    /\ fn_pc = "StandardRAGPipeline.run"
    /\ fn_args \in StandardArgs
    /\ fn_ret = <<>>
    /\ PipelineIdle
    /\ StoreIdle
    /\ AgentIdle

DistanceFilter(docs) ==
    SelectDocs(docs, {d \in AllDocs : d.distance # NoScore
                                        /\ d.distance < DISTANCE_THRESHOLD})

\* variant that never refuses
StandardRefuses_Never(strict, relevant_docs) == FALSE

\* if strict_mode: ... if not relevant_docs: return NO_RELEVANT_DOCS_MESSAGE, []
StandardRefuses(strict, relevant_docs) == strict /\ relevant_docs = <<>>

StandardRun ==
    /\ fn_pc = "StandardRAGPipeline.run"
    /\ LET relevant_docs == DistanceFilter(fn_args.documents)
           kept == IF fn_args.strict_mode THEN relevant_docs
                   ELSE fn_args.documents
       IN  IF StandardRefuses(fn_args.strict_mode, relevant_docs)
           THEN Refuse
           ELSE Generate(_inject_history_as_documents(
                            kept, fn_args.relevant_history))
    /\ UNCHANGED <<fn_args, pipeline_vars, store_vars, agent_vars>>

NextStandard == StandardRun

\* the retrieval of the three pipelines
SpecRefusal ==
    (InitRetrieval \/ InitRerank \/ InitStandard)
        /\ [][Next \/ NextRerank \/ NextStandard]_vars

\* retrieval of the verified pipeline and of the reranking pipeline
SpecStrictMode ==
    (InitRetrieval \/ InitRerank) /\ [][Next \/ NextRerank]_vars

SpecRerank == InitRerank /\ [][NextRerank]_vars

(***************************************************************************)
(* Configuration of the verified pipeline.  A configured value is absent   *)
(* (no such key), None, a text that is no number ("bad"), the number nan   *)
(* or a number v; temperatures are in tenths.                              *)
(***************************************************************************)
Absent == [kind |-> "absent", v |-> 0]
None == [kind |-> "none", v |-> 0]
Bad == [kind |-> "bad", v |-> 0]
NaN == [kind |-> "nan", v |-> 0]
Num(v) == [kind |-> "num", v |-> v]

TempValues == {None, Bad, NaN} \cup { Num(v) : v \in {-5, 0, 7, 20, 25} }

\* _get_env_float(name, default): os.getenv gives None or a text
_get_env_float(val, default) ==
    IF val.kind \in {"absent", "none", "bad"} THEN default ELSE val

\* DEFAULT_OPTIMIST_TEMPERATURE and its like: the environment, else 0.6
DEFAULT_TEMPERATURE(env) == _get_env_float(env, Num(6))

\* if temp < 0.0: temp = 0.0 / elif temp > 2.0: temp = 2.0; both
\* comparisons are false for nan
ClampTemperature(temp) ==
    IF temp.kind = "nan" THEN temp
    ELSE IF temp.v < 0 THEN Num(0)
    ELSE IF temp.v > 20 THEN Num(20)
    ELSE temp

\* VerifiedRAGPipeline._parse_temperature(value, role_name, default)
_parse_temperature(value, default) ==
    IF value.kind = "bad" THEN default
    ELSE ClampTemperature(IF value.kind = "none" THEN default ELSE value)

\* config.get(key, default)
ConfigGet(entry, default) == IF entry.kind = "absent" THEN default ELSE entry

\* __init__: self.<role>_temperature
InstanceTemperature(config, env) ==
    _parse_temperature(ConfigGet(config, DEFAULT_TEMPERATURE(env)),
                       DEFAULT_TEMPERATURE(env))

\* run: <role>_temp, the temperature handed to the role's LLM call
RequestTemperature(request, config, env) ==
    IF request.kind = "absent" THEN InstanceTemperature(config, env)
    ELSE _parse_temperature(request, InstanceTemperature(config, env))

\* __init__: int(configured_attempts), the default on TypeError/ValueError
ConfiguredAttempts(entry) ==
    ClampAttempts(entry.kind = "num", entry.v)

ConfigArgs ==
    [role : Roles,
     request : {Absent} \cup TempValues,
     config : {Absent} \cup TempValues,
     env : {Absent, Bad, NaN} \cup { Num(v) : v \in {-5, 7, 25} },
     max_verification_attempts :
        {Absent, None, Bad} \cup { Num(v) : v \in -1..MaxConfigured }]

InitConfig ==
    /\ fn_pc = "VerifiedRAGPipeline"
    /\ fn_args \in ConfigArgs
    /\ fn_ret = <<>>
    /\ PipelineIdle
    /\ StoreIdle
    /\ AgentIdle

Configure ==
    /\ fn_pc = "VerifiedRAGPipeline"
    /\ fn_pc' = "configured"
    /\ fn_ret' = [max_verification_attempts |->
                     ConfiguredAttempts(fn_args.max_verification_attempts),
                  temperature |->
                     RequestTemperature(fn_args.request, fn_args.config,
                                        fn_args.env)]
    /\ UNCHANGED <<fn_args, pipeline_vars, store_vars, agent_vars>>

NextConfig == Configure

SpecConfig == InitConfig /\ [][NextConfig]_vars

(***************************************************************************)
(* BaseRAGPipeline._call_llm up to the HTTP request: the generation        *)
(* parameters and the payload of each backend.                             *)
(***************************************************************************)
Backends == {"claude", "anthropic", "ollama", "openai", "local", "other"}

\* variant that leaves the instance's temperature in place
GenerationTemperature_Instance(default, temperature) == default

\* generation_params = self.default_llm_params.copy();
\* if temperature is not None: generation_params["temperature"] = temperature
\* (temperature is a named parameter, so kwargs never holds it)
GenerationTemperature(default, temperature) ==
    IF temperature.kind # "none" THEN temperature ELSE default

\* the payload: where the temperature is put, its value, and whether a
\* thinking block with the budget is part of it
Payload(field, temperature, thinking) ==
    [field |-> field, temperature |-> temperature, thinking |-> thinking]

_call_llm(a) ==
    LET temp == GenerationTemperature(a.default_temperature, a.temperature)
    IN  IF a.llm_backend \in {"claude", "anthropic"}
        THEN IF ~a.api_key THEN [raised |-> TRUE, payload |-> <<>>]
             ELSE IF a.enable_thinking
             THEN [raised |-> FALSE,
                   payload |-> Payload("temperature", None, TRUE)]
             ELSE [raised |-> FALSE,
                   payload |-> Payload("temperature", temp, FALSE)]
        ELSE IF a.llm_backend = "ollama"
        THEN [raised |-> FALSE,
              payload |-> Payload("options.temperature", temp, FALSE)]
        ELSE IF a.llm_backend = "openai"
        THEN IF ~a.api_key THEN [raised |-> TRUE, payload |-> <<>>]
             ELSE [raised |-> FALSE,
                   payload |-> Payload("temperature", temp, FALSE)]
        ELSE IF a.llm_backend = "local"
        THEN [raised |-> FALSE,
              payload |-> Payload("temperature", temp, FALSE)]
        ELSE [raised |-> TRUE, payload |-> <<>>]

CallTemperatures == { Num(v) : v \in {0, 2, 7, 20} }

LlmArgs ==
    [llm_backend : Backends,
     api_key : BOOLEAN,
     enable_thinking : BOOLEAN,
     default_temperature : CallTemperatures,
     temperature : {None} \cup CallTemperatures]

InitLlm ==
    /\ fn_pc = "_call_llm"
    /\ fn_args \in LlmArgs
    /\ fn_ret = <<>>
    /\ PipelineIdle
    /\ StoreIdle
    /\ AgentIdle

CallLlm ==
    /\ fn_pc = "_call_llm"
    /\ fn_pc' = IF _call_llm(fn_args).raised THEN "ValueError" ELSE "payload"
    /\ fn_ret' = _call_llm(fn_args).payload
    /\ UNCHANGED <<fn_args, pipeline_vars, store_vars, agent_vars>>

NextLlm == CallLlm

SpecLlm == InitLlm /\ [][NextLlm]_vars

(***************************************************************************)
(* AgentPipeline.run_step.  The arguments of a tool call are a map, or a   *)
(* text that is the JSON of a map ("dict"), the JSON of something else     *)
(* ("list") or no JSON at all ("invalid").                                 *)
(***************************************************************************)
ToolArgs(form, json, map) == [form |-> form, json |-> json, map |-> map]

ToolArgForms ==
    { ToolArgs("dict", "none", "m1"), ToolArgs("str", "dict", "m2"),
      ToolArgs("str", "list", "m1"), ToolArgs("str", "invalid", "m1") }

\* if isinstance(args, str): try: args = json.loads(args)
\* except json.JSONDecodeError: pass
ParseArgs(args) ==
    IF args.form = "str" /\ args.json # "invalid"
    THEN ToolArgs(args.json, "none", args.map)
    ELSE args

ToolCalls ==
    [name : {"read_file", "list_files"}, id : {"call_null", "toolu_1"},
     args : ToolArgForms]

StepArgs ==
    [history : 0..1,
     model_raises : {"none", "ConnectionError", "ValueError"},
     content : {"", "text"},
     tool_calls : SeqsUpTo(ToolCalls, 2)]

\* messages.append({"role": "user", "content": f"Trace the codebase ..."})
SeedMessages(request_history) ==
    [i \in 1..request_history |-> "history"]
        \o (IF request_history = 0 THEN <<"seed">> ELSE <<>>)

\* variant without the try around the model call
StepCatches_Reraises(exc) == FALSE

\* try: response_data = await self._call_model_agnostic(messages)
\* except Exception as e: ...
StepCatches(exc) == TRUE

StepResponse(raised, type, content, tool, args, tool_id) ==
    [raised |-> raised, type |-> type, content |-> content, tool |-> tool,
     args |-> args, tool_id |-> tool_id]

\* AgentStepResponse(...): args is Optional[Dict[str, Any]]
run_step(a) ==
    IF a.model_raises # "none"
    THEN IF StepCatches(a.model_raises)
         THEN StepResponse("none", "answer", "Critical Agent Error", "none",
                           ToolArgs("none", "none", "none"), "none")
         ELSE StepResponse(a.model_raises, "none", "none", "none",
                           ToolArgs("none", "none", "none"), "none")
    ELSE IF a.tool_calls # <<>>
    THEN LET tool == a.tool_calls[1]
             args == ParseArgs(tool.args)
         IN  StepResponse(IF args.form # "dict" THEN "ValidationError"
                          ELSE "none",
                          "tool_call", "none", tool.name, args, tool.id)
    ELSE StepResponse("none", "answer", a.content, "none",
                      ToolArgs("none", "none", "none"), "none")

\* the circuit breaker as earlier tool calls of the agent left it
BreakerAtRest ==
    /\ _code_buddy_failures \in {0, _CODE_BUDDY_FAILURE_THRESHOLD - 1,
                                  _CODE_BUDDY_FAILURE_THRESHOLD}
    /\ failures_recorded = _code_buddy_failures
    /\ now = 0
    /\ opened_at = IF FailureOpensCircuit(_code_buddy_failures) THEN 0 ELSE -1
    /\ _code_buddy_circuit_open_until =
          IF FailureOpensCircuit(_code_buddy_failures) THEN OpenUntil(0) ELSE 0
    /\ call_pc = "idle"
    /\ call_attempt = 0
    /\ http_clients = 0
    /\ sleeps = <<>>
    /\ call_result = "none"
    /\ rec_pc = [th \in Threads |-> "idle"]
    /\ rec_tmp = [th \in Threads |-> 0]

InitStep ==
    /\ fn_pc = "run_step"
    /\ fn_args \in StepArgs
    /\ fn_ret = <<>>
    /\ PipelineIdle
    /\ StoreIdle
    /\ ToolIdle
    /\ BreakerAtRest

RunStep ==
    /\ fn_pc = "run_step"
    /\ fn_pc' = IF run_step(fn_args).raised = "none"
                THEN "returned" ELSE run_step(fn_args).raised
    /\ fn_ret' = [response |-> run_step(fn_args),
                  messages |-> SeedMessages(fn_args.history)]
    /\ UNCHANGED <<fn_args, pipeline_vars, store_vars, agent_vars>>

NextStep == RunStep

SpecStep == InitStep /\ [][NextStep]_vars

(***************************************************************************)
(* AgentPipeline._execute_tool.  A text is described by its length, the    *)
(* class of its first character, the classes of the others and whether it  *)
(* contains "..": what the two validators look at.  An argument is a text, *)
(* None, a number, or missing from the map.                                *)
(***************************************************************************)
CharClasses == {"alpha", "digit", "_", ".", "/", "other"}

Text(len, first, rest, dotdot) ==
    [kind |-> "text", len |-> len, first |-> first, rest |-> rest,
     dotdot |-> dotdot]

EmptyText == Text(0, "none", {}, FALSE)

TextLengths == {1, 2, 200, 201, 500, 501}

Texts ==
    {EmptyText} \cup
    { Text(len, first, rest, dotdot) :
        len \in TextLengths, first \in CharClasses,
        rest \in SUBSET {"alpha", ".", "other"}, dotdot \in BOOLEAN }

WellFormedText(s) ==
    /\ s.len = 1 => s.rest = {}
    /\ s.len > 1 => s.rest # {}
    /\ s.dotdot => s.len > 1 /\ "." \in s.rest
    /\ (s.dotdot /\ s.len = 2) => s.first = "." /\ s.rest = {"."}

ArgValues ==
    {s \in Texts : WellFormedText(s)}
        \cup {[kind |-> "absent"], [kind |-> "none"], [kind |-> "int"]}

\* args.get(key, "")
ArgGet(value, default) == IF value.kind = "absent" THEN default ELSE value

\* re.match(r'^[a-zA-Z_][a-zA-Z0-9_./]*$', name)
SymbolMatches(name) ==
    /\ name.first \in {"alpha", "_"}
    /\ name.rest \subseteq {"alpha", "digit", "_", ".", "/"}

\* the exception _validate_symbol_name leaves with, "none" when it returns
_validate_symbol_name(name) ==
    IF name.kind = "none" THEN "ValueError"
    ELSE IF name.kind = "int" THEN "TypeError"
    ELSE IF name.len = 0 \/ name.len > 200 THEN "ValueError"
    ELSE IF ~SymbolMatches(name) THEN "ValueError"
    ELSE "none"

\* the exception _validate_file_path leaves with, "none" when it returns
_validate_file_path(path) ==
    IF path.kind = "none" THEN "ValueError"
    ELSE IF path.kind = "int" THEN "TypeError"
    ELSE IF path.len = 0 \/ path.len > 500 THEN "ValueError"
    ELSE IF path.dotdot THEN "ValueError"
    ELSE "none"

FileTools == {"list_files", "read_file"}
SymbolTools ==
    {"find_symbol", "find_callers", "find_callees", "find_implementations",
     "find_references", "get_type_info"}
PathTools == {"get_imports", "get_dependency_tree"}
QueryTools == {"get_context", "search_library_docs"}
RequiredTools == {"retrieve_memory", "validate_memory"}
LimitTools ==
    {"find_callers", "find_callees", "find_implementations",
     "find_references", "get_dependency_tree"}
ToolNames ==
    FileTools \cup SymbolTools \cup PathTools \cup QueryTools
        \cup RequiredTools \cup {"no_such_tool"}

ExecuteArgs ==
    [name : ToolNames,
     value : ArgValues,
     limit : {"absent", "int", "text"},
     world : {"ok", "error", "raises"}]

ToolOutcome(raised, result, calls) ==
    [raised |-> raised, result |-> result, calls |-> calls]

\* result = call_code_buddy(...); return json.dumps(result)
BackendCall(a) == ToolOutcome("none", "backend", 1)

\* limit = min(args.get("limit", 50), 200)
LimitThenCall(a) ==
    IF a.name \in LimitTools /\ a.limit = "text"
    THEN ToolOutcome("TypeError", "none", 0)
    ELSE BackendCall(a)

\* the body of the try block
ToolBody(a) ==
    IF a.name \in FileTools
    THEN IF ArgGet(a.value, Text(1, ".", {}, FALSE)).kind # "text"
         THEN ToolOutcome("TypeError", "none", 0)
         ELSE IF a.world = "raises" THEN ToolOutcome("OSError", "none", 0)
         ELSE IF a.world = "error" THEN ToolOutcome("none", "error", 0)
         ELSE ToolOutcome("none", "content", 0)
    ELSE IF a.name \in SymbolTools
    THEN LET exc == _validate_symbol_name(ArgGet(a.value, EmptyText))
         IN  IF exc # "none" THEN ToolOutcome(exc, "none", 0)
             ELSE LimitThenCall(a)
    ELSE IF a.name \in PathTools
    THEN LET exc == _validate_file_path(ArgGet(a.value, EmptyText))
         IN  IF exc # "none" THEN ToolOutcome(exc, "none", 0)
             ELSE LimitThenCall(a)
    ELSE IF a.name \in QueryTools
    THEN BackendCall(a)
    ELSE IF a.name \in RequiredTools
    THEN LET query == ArgGet(a.value, EmptyText)
         IN  IF query.kind = "none" \/ (query.kind = "text" /\ query.len = 0)
             THEN ToolOutcome("none", "error", 0)
             ELSE BackendCall(a)
    ELSE ToolOutcome("none", "error", 0)

\* variant whose handler catches ValueError alone
HandlerCatches_ValueErrorOnly(exc) == exc = "ValueError"

\* except ValueError as e: ... except Exception as e: ...
HandlerCatches(exc) == TRUE

_execute_tool(a) ==
    LET body == ToolBody(a)
    IN  IF body.raised = "none" THEN body
        ELSE IF ~HandlerCatches(body.raised) THEN body
        ELSE IF body.raised = "ValueError"
        THEN ToolOutcome("none", "error_suggestion", body.calls)
        ELSE ToolOutcome("none", "system_error", body.calls)

InitExecute ==
    /\ fn_pc = "_execute_tool"
    /\ fn_args \in ExecuteArgs
    /\ fn_ret = <<>>
    /\ PipelineIdle
    /\ StoreIdle
    /\ AgentIdle

ExecuteTool ==
    /\ fn_pc = "_execute_tool"
    /\ fn_pc' = IF _execute_tool(fn_args).raised = "none"
                THEN "returned" ELSE "raised"
    /\ fn_ret' = _execute_tool(fn_args)
    /\ UNCHANGED <<fn_args, pipeline_vars, store_vars, agent_vars>>

NextExecute == ExecuteTool

SpecExecute == InitExecute /\ [][NextExecute]_vars

(***************************************************************************)
(* _handle_code_buddy_error: the payload built from a response whose       *)
(* status is not 200.                                                      *)
(***************************************************************************)
StatusCodes == (100..599) \ {200}

ErrorArgs == [status : StatusCodes, body_is_json : BOOLEAN]

ErrorPayload(error, keys) == [error |-> error, keys |-> keys]

_handle_code_buddy_error(a) ==
    IF a.status = 404
    THEN ErrorPayload("not found", {"error", "suggestion"})
    ELSE IF a.status = 400
    THEN ErrorPayload(IF a.body_is_json THEN "Invalid request: msg"
                      ELSE "Invalid request: unknown",
                      {"error", "suggestion"})
    ELSE IF a.status = 503
    THEN ErrorPayload("temporarily unavailable", {"error", "suggestion"})
    ELSE ErrorPayload("Unexpected error", {"error"})

InitHandleError ==
    /\ fn_pc = "_handle_code_buddy_error"
    /\ fn_args \in ErrorArgs
    /\ fn_ret = <<>>
    /\ PipelineIdle
    /\ StoreIdle
    /\ AgentIdle

HandleError ==
    /\ fn_pc = "_handle_code_buddy_error"
    /\ fn_pc' = "returned"
    /\ fn_ret' = _handle_code_buddy_error(fn_args)
    /\ UNCHANGED <<fn_args, pipeline_vars, store_vars, agent_vars>>

SpecHandleError == InitHandleError /\ [][HandleError]_vars

(***************************************************************************)
(* Several /rag/verified requests on one event loop.  run_verified_rag     *)
(* builds a pipeline per request, and run keeps its VerificationState and  *)
(* its stall counter in locals; the runs interleave at their awaits.       *)
(* fn_args gives every run its draft and the responses to its skeptic and  *)
(* refiner calls; fn_ret holds the position and the returned answer of     *)
(* every run (frames) and the VerificationState objects (states).          *)
(***************************************************************************)
Runs == {1, 2}

\* variant with one VerificationState kept on a shared object
StateOwner_Shared(run) == 1

\* state = VerificationState(current_answer=initial_answer): a local of run
StateOwner(run) == run

NoState ==
    [current_answer |-> <<>>, attempt_count |-> 0, is_final_verified |-> FALSE,
     history |-> <<>>, stall_count |-> 0]

RunInputs ==
    [max_verification_attempts : {1, 2},
     draft : {AnsA, AnsB},
     skeptic : [1..2 -> {Resp(FALSE, "dict", "true", "str"),
                         Resp(FALSE, "dict", "false", "str")}],
     refiner : {AnsA, AnsB, AnsBlank}]

Frame(pc_, state, out) == [pc |-> pc_, state |-> state, out |-> out]

\* the code of run from one await to the next, on the run's position and
\* the VerificationState it uses
StepRun(f, inp) ==
    LET s == f.state
        max == inp.max_verification_attempts
        exit(st) == Frame("log", st,
                          FinalOutput(st.current_answer, st.is_final_verified))
    IN  CASE f.pc = "draft" ->
               Frame("audit", [NoState EXCEPT !.current_answer = inp.draft], <<>>)
          [] f.pc = "audit" ->
               LET audit == _execute_skeptic_scan(inp.skeptic[s.attempt_count + 1])
                   a == [s EXCEPT !.history = add_audit(s.history, audit),
                                  !.attempt_count = s.attempt_count + 1]
               IN  IF audit.is_verified
                   THEN exit([a EXCEPT !.is_final_verified = TRUE])
                   ELSE IF MoreAttemptsRemain(a.attempt_count, max)
                   THEN Frame("refine", a, <<>>)
                   ELSE exit(a)
          [] f.pc = "refine" ->
               LET reason == _validate_refined_answer(inp.refiner,
                                                      s.current_answer)
                   counted == StallCountAfterCheck(s.stall_count, reason)
                   a == IF StallBreak(counted, reason) \/ reason = "empty_answer"
                        THEN [s EXCEPT !.stall_count = counted]
                        ELSE IF UpdatesAnswer(reason)
                        THEN [s EXCEPT !.current_answer = inp.refiner,
                                       !.stall_count = 0]
                        ELSE [s EXCEPT !.stall_count = counted]
               IN  IF StallBreak(counted, reason) THEN exit(a)
                   ELSE IF LoopCondition(a.attempt_count, max)
                   THEN Frame("audit", a, <<>>)
                   ELSE exit(a)
          [] f.pc = "log" -> Frame("done", s, f.out)
          [] OTHER -> f

InitRuns ==
    /\ fn_pc = "run_verified_rag"
    /\ fn_args \in [Runs -> RunInputs]
    /\ fn_ret = [frames |-> [r \in Runs |-> [pc |-> "draft", out |-> <<>>]],
                 states |-> [r \in Runs |-> NoState]]
    /\ PipelineIdle
    /\ StoreIdle
    /\ AgentIdle

\* the event loop resumes one run, which runs up to its next await
ResumeRun(r) ==
    /\ fn_pc = "run_verified_rag"
    /\ fn_ret.frames[r].pc # "done"
    /\ LET f == StepRun(Frame(fn_ret.frames[r].pc,
                              fn_ret.states[StateOwner(r)],
                              fn_ret.frames[r].out), fn_args[r])
       IN  fn_ret' =
             [frames |-> [fn_ret.frames EXCEPT ![r] = [pc |-> f.pc, out |-> f.out]],
              states |-> [fn_ret.states EXCEPT ![StateOwner(r)] = f.state]]
    /\ UNCHANGED <<fn_pc, fn_args, pipeline_vars, store_vars, agent_vars>>

NextRuns == \E r \in Runs : ResumeRun(r)

SpecRuns == InitRuns /\ [][NextRuns]_vars

(***************************************************************************)
(* Properties.                                                             *)
(***************************************************************************)
Last(seq) == seq[Len(seq)]

\* the run has returned (or is about to, once the debate log is written)
\* from the verification loop, not from the retrieval phase
LoopReturned ==
    /\ pc \in {"log", "done"}
    /\ exit_reason \notin {"relevance_gate_failed", "no_relevant_docs",
                           "no_context"}

\* C1: in every state of a run and of a run_with_progress attempt_count is
\* the length of history, is_final_verified implies that the last audit of
\* history is verified, and once the loop has terminated attempt_count lies
\* between 1 and max_verification_attempts.
C1_StateInvariant ==
    /\ attempt_count = Len(history)
    /\ attempt_count <= max_verification_attempts
    /\ is_final_verified => (history # <<>> /\ Last(history).is_verified)
    /\ (pc = "finalize" \/ LoopReturned) =>
          (1 <= attempt_count /\ attempt_count <= max_verification_attempts)

C1_Witness ==
    /\ pc = "done"
    /\ mode = "run_with_progress"
    /\ is_final_verified
    /\ attempt_count = 3
    /\ attempt_count = max_verification_attempts

\* C2: a skeptic response that is empty, holds no JSON object or lacks the
\* is_verified field is turned into an audit with is_verified = FALSE that
\* is appended to history and the run goes on without raising; and
\* is_final_verified only becomes true on a response that parses to an audit
\* with is_verified true.  (A task cancelled while the audit's event is with
\* the callback takes no verdict at all.)
Unparsable(response) ==
    response.blank \/ response.data = "none" \/ response.is_verified = "missing"

C2_FailClosed ==
    [][ /\ (pc = "scan" /\ Unparsable(response_str)
               /\ exception' # "CancelledError") =>
             /\ pc' \in {"refine", "finalize"}
             /\ Len(history') = Len(history) + 1
             /\ ~Last(history').is_verified
             /\ ~is_final_verified'
        /\ (is_final_verified' /\ ~is_final_verified) =>
             /\ pc = "scan"
             /\ response_str.data = "dict"
             /\ response_str.is_verified \in {"true", "str_true"}
      ]_vars

C2_Witness ==
    /\ pc = "done"
    /\ is_final_verified
    /\ Len(history) = 4
    /\ history[1].reasoning = "empty_response"
    /\ history[2].reasoning = "parse_error"
    /\ history[3].reasoning = "parse_error"

\* C3 (as claimed): when a refinement is stalled and the refinement before it
\* was stalled too, the loop is left right after it, with no further skeptic
\* call, whatever attempts remain.
C3_StallExit ==
    [][ (/\ pc = "refine"
         /\ pc' # "raised"
         /\ validation_reason = "stalled_no_change"
         /\ validation_reason' = "stalled_no_change") =>
            (pc' = "finalize" /\ exit_reason' = "refinement_stalled")
      ]_vars

\* C4 (as claimed): a refined answer that fails validation, being empty, too
\* short or stalled, never replaces current_answer.
C4_InvalidNeverReplaces ==
    [][ (/\ pc = "refine"
         /\ pc' # "raised"
         /\ validation_reason' # "valid") =>
            current_answer' = current_answer
      ]_vars

\* C5: when the skeptic never verifies and every refinement is valid, the run
\* makes max_verification_attempts skeptic calls and one refiner call less,
\* ends with attempt_count = max_verification_attempts and returns the last
\* refined answer (the draft when the refiner was never called) followed by
\* the warning suffix.
C5_Exhaustion ==
    (LoopReturned /\ ~is_final_verified /\ refinements_valid) =>
        /\ llm_calls["skeptic"] = max_verification_attempts
        /\ llm_calls["refiner"] = max_verification_attempts - 1
        /\ attempt_count = max_verification_attempts
        /\ \A i \in 1..Len(history) : ~history[i].is_verified
        /\ final_output =
              (IF llm_calls["refiner"] = 0 THEN original_draft
               ELSE refined_answer) \o WarningSuffix

C5_Witness ==
    /\ pc = "done"
    /\ mode = "run"
    /\ ~is_final_verified
    /\ refinements_valid
    /\ max_verification_attempts = 3
    /\ llm_calls["refiner"] = 2
    /\ final_output = AnsB \o WarningSuffix

\* C6: when the first audit is verified the run ends with attempt_count = 1,
\* the refiner is never called, and what is returned is the optimist draft
\* unchanged with one source entry for each retained document (in a run
\* that is not cancelled).
C6_ImmediateVerification ==
    (history # <<>> /\ history[1].is_verified
        /\ exception # "CancelledError") =>
        /\ attempt_count = 1
        /\ is_final_verified
        /\ llm_calls["refiner"] = 0
        /\ pc \in {"finalize", "log", "done"}
        /\ pc \in {"log", "done"} =>
              /\ final_output = original_draft
              /\ Len(sources) = Len(context_docs)
              /\ \A i \in 1..Len(sources) :
                    sources[i].source = context_docs[i].source

C6_Witness ==
    /\ pc = "done"
    /\ history = <<Audit(TRUE, "skeptic")>>
    /\ final_output = AnsA
    /\ Len(sources) = 1

\* C7: when the first audit rejects, the refiner returns a valid answer and
\* the second audit verifies, the skeptic was called twice, the refiner once,
\* and the answer returned is the refined answer without a suffix.
C7_OneShotRefinement ==
    (/\ LoopReturned
     /\ Len(history) = 2
     /\ ~history[1].is_verified
     /\ history[2].is_verified
     /\ validation_reason = "valid") =>
        /\ llm_calls["skeptic"] = 2
        /\ llm_calls["refiner"] = 1
        /\ final_output = refined_answer
        /\ final_output # original_draft

C7_Witness ==
    /\ pc = "done"
    /\ Len(history) = 2
    /\ history[2].is_verified
    /\ validation_reason = "valid"
    /\ original_draft = AnsA
    /\ final_output = AnsB

\* C8: the skeptic is called at most max_verification_attempts times and the
\* refiner at most max_verification_attempts - 1 times, no refinement follows
\* the last permitted audit, and with max_verification_attempts = 1 a run that
\* returns from the loop called the skeptic once and the refiner never.
C8_AttemptBudget ==
    /\ llm_calls["skeptic"] <= max_verification_attempts
    /\ llm_calls["refiner"] <= max_verification_attempts - 1
    /\ pc = "refine" => attempt_count < max_verification_attempts
    /\ (LoopReturned /\ max_verification_attempts = 1) =>
          (llm_calls["skeptic"] = 1 /\ llm_calls["refiner"] = 0)

C8_Witness ==
    /\ pc = "done"
    /\ llm_calls["skeptic"] = 5
    /\ llm_calls["refiner"] = 4
    /\ max_verification_attempts = 5

\* C9: the answer returned from the loop is current_answer followed by the
\* warning suffix exactly when the loop ended without verification, which is
\* when it was exhausted or stalled; a verified run returns current_answer
\* as it is.
C9_TerminalAssembly ==
    LoopReturned =>
        /\ is_final_verified => final_output = current_answer
        /\ ~is_final_verified => final_output = current_answer \o WarningSuffix
        /\ ~is_final_verified <=>
              exit_reason \in {"max_attempts_reached", "refinement_stalled"}

C9_Witness ==
    /\ pc = "done"
    /\ mode = "run_with_progress"
    /\ ~is_final_verified
    /\ exit_reason = "max_attempts_reached"
    /\ final_output = AnsB \o WarningSuffix

\* C10: with the gate enabled and no history, when the reranked set is empty
\* or none of its scores reaches the gate threshold, the run returns the
\* low-relevance message with no sources, calls no LLM and writes no debate
\* log.
C10_GatedRefusal ==
    (/\ RELEVANCE_GATE_ENABLED
     /\ ~has_history
     /\ \A i \in 1..Len(reranked_docs) :
           reranked_docs[i].score < RELEVANCE_GATE_THRESHOLD
     /\ pc \notin {"retrieve", "gate", "raised"}) =>
        /\ pc = "done"
        /\ final_output = LOW_RELEVANCE_MESSAGE
        /\ sources = <<>>
        /\ \A r \in Roles : llm_calls[r] = 0
        /\ debate_log = <<>>

C10_Witness ==
    /\ pc = "done"
    /\ RELEVANCE_GATE_ENABLED
    /\ ~has_history
    /\ session_id
    /\ Len(reranked_docs) = 2
    /\ reranked_docs[1].score = 3
    /\ final_output = LOW_RELEVANCE_MESSAGE

\* the chunks a query with this session id may see
Visible(d) ==
    d.in_session = "none" \/
    (search_session # "none" /\ d.in_session = search_session)

\* C11 (as claimed): what the retrieval returns, after the parent-document
\* expansion, holds only global chunks and chunks of the session of the
\* query; a query without a session id gets global chunks only.
C11_SessionScoping ==
    search_pc = "returned" => \A d \in initial_docs : Visible(d)

\* the path is the project root or lies below it
UnderRoot(path) ==
    path = project_root \/ StartsWith(path, project_root \o <<"/">>)

\* C12 (as claimed): a file system tool touches the file system only when
\* the normalized absolute path is the project root or a descendant of it,
\* and every other path is answered with the access-denied error.
C12_PathConfinement ==
    /\ tool_result = "touched" => UnderRoot(safe_path)
    /\ (tool_pc = "returned" /\ ~UnderRoot(safe_path)) => tool_result = "denied"

CircuitOpen == _is_circuit_open(_code_buddy_circuit_open_until, now)

\* a step that enters call_code_buddy
EntersCall == call_pc \in {"idle", "returned"} /\ now' = now

\* C13: the failure that brings the failures recorded since the last success
\* to 5 or more leaves the circuit open; a call entered while the circuit is
\* open returns the fallback payload without creating an HTTP client; with
\* fewer than 5 failures since the last success the circuit is not open; a
\* recorded success sets the failure count to 0 and closes the circuit.
C13_BreakerOpens ==
    [][ /\ (failures_recorded' > failures_recorded
            /\ failures_recorded' >= _CODE_BUDDY_FAILURE_THRESHOLD) =>
               CircuitOpen'
        /\ (EntersCall /\ CircuitOpen) =>
               /\ call_result' = "circuit_open"
               /\ call_pc' = "returned"
               /\ http_clients' = 0
        /\ failures_recorded' < _CODE_BUDDY_FAILURE_THRESHOLD => ~CircuitOpen'
        /\ (call_pc = "attempt" /\ call_result' = "response") =>
               /\ _code_buddy_failures' = 0
               /\ ~CircuitOpen'
      ]_vars

C13_Witness ==
    /\ call_result = "circuit_open"
    /\ call_pc = "returned"
    /\ failures_recorded = _CODE_BUDDY_FAILURE_THRESHOLD
    /\ http_clients = 0

C15_RetryPolicyAsClaimed ==
    call_result = "connection_failed" =>
        /\ http_clients = 3
        /\ sleeps = <<1, 2, 4>>
        /\ call_pc = "returned"

\* C15 (amended): such a call makes three HTTP attempts, waits 1 s after the
\* first and 2 s after the second failed attempt, does not wait after the
\* third, and returns the error payload; the retry loop never falls through
\* without a payload.
C15_RetryPolicy ==
    /\ call_result = "connection_failed" =>
          /\ http_clients = 3
          /\ sleeps = <<1, 2>>
          /\ call_pc = "returned"
    /\ call_pc = "attempt" =>
          (http_clients = Len(sleeps) /\ http_clients < max_retries)
    /\ call_result # "None"

C15_Witness ==
    /\ call_result = "connection_failed"
    /\ sleeps = <<1, 2>>
    /\ failures_recorded = 3

\* C16 (as claimed): no update of the circuit-breaker counters is lost when
\* several threads record failures and successes: once 5 failures have been
\* recorded since the last success, in whatever interleaving, and no thread
\* is inside a recording function, the circuit is open.
C16_NoLostUpdate ==
    (/\ failures_recorded >= _CODE_BUDDY_FAILURE_THRESHOLD
     /\ \A th \in Threads : rec_pc[th] = "idle") => CircuitOpen

(***************************************************************************)
(* C17: run_with_progress with a callback that never raises is the same    *)
(* state machine as run: it returns the same answer and sources after the  *)
(* same skeptic and refiner calls and the same debate-log write.  The two  *)
(* loops take the same steps on the same verdicts and refinements, so the  *)
(* progress variant can only differ by leaving on an exception of its own: *)
(* it leaves by an exception only where run does, on a failed outbound     *)
(* call or a cancellation.                                                 *)
(***************************************************************************)
RunAlsoRaises == exception \in {"RuntimeError", "CancelledError"}

C17_ProgressEquivalence ==
    (mode = "run_with_progress" /\ ~callback_raised /\ pc = "raised")
        => RunAlsoRaises

EventIs(i, type) == events[i].event_type = type

AttemptsInRange ==
    \A i \in 1..Len(events) :
        events[i].attempt \in 1..max_verification_attempts

ReachedLoop == Len(events) >= 4 /\ EventIs(4, "draft_complete")

PreambleOrdered ==
    ReachedLoop =>
        /\ EventIs(1, "retrieval_start")
        /\ EventIs(2, "retrieval_complete")
        /\ EventIs(3, "draft_start")
        /\ \A i \in 5..Len(events) :
              events[i].event_type \in
                  {"skeptic_audit_start", "skeptic_audit_complete",
                   "refinement_start", "refinement_complete",
                   "verification_complete"}

AttemptOrdered ==
    \A i \in 1..Len(events) :
        /\ EventIs(i, "skeptic_audit_complete")
              => \E j \in 1..(i - 1) :
                    /\ EventIs(j, "skeptic_audit_start")
                    /\ events[j].attempt = events[i].attempt
        /\ events[i].event_type \in {"refinement_start", "refinement_complete"}
              => \E j \in 1..(i - 1) :
                    /\ EventIs(j, "skeptic_audit_complete")
                    /\ events[j].attempt = events[i].attempt
        /\ EventIs(i, "skeptic_audit_start")
              => \A j \in 1..(i - 1) :
                    events[j].event_type \in
                        {"skeptic_audit_start", "skeptic_audit_complete",
                         "refinement_start", "refinement_complete"}
                      => events[j].attempt < events[i].attempt

CompleteIsLast ==
    \A i \in 1..Len(events) :
        EventIs(i, "verification_complete") => i = Len(events)

RunOver == pc \in {"done", "raised"}

EndsWithComplete ==
    (mode = "run_with_progress" /\ ReachedLoop /\ RunOver /\ ~RunAlsoRaises)
        => EventIs(Len(events), "verification_complete")

C19_EventOrder ==
    /\ AttemptsInRange
    /\ PreambleOrdered
    /\ AttemptOrdered
    /\ CompleteIsLast
    /\ EndsWithComplete

(***************************************************************************)
(* C20: no partial debate log: a debate record is inserted at most once    *)
(* per run, only when a session id is given and only after the loop has    *)
(* terminated and the final answer has been assembled; a run cancelled or  *)
(* failing at an earlier suspension point inserts no record.               *)
(***************************************************************************)
LoopTerminated ==
    \/ is_final_verified
    \/ ~LoopCondition(attempt_count, max_verification_attempts)
    \/ exit_reason = "refinement_stalled"

C20_NoPartialDebateLog ==
    [][debate_log' # debate_log
          => /\ pc = "log"
             /\ session_id
             /\ debate_log = <<>>
             /\ debate_log' = <<DebateRecord>>
             /\ DebateRecord.final_answer = final_output
             /\ final_output' = final_output
             /\ LoopTerminated]_vars

C20_Witness ==
    /\ pc = "done"
    /\ Len(debate_log) = 1
    /\ debate_log[1].attempt_count = 2
    /\ debate_log[1].final_answer = final_output

(***************************************************************************)
(* C21: debate-log failures are swallowed: when the vector store is not    *)
(* connected or the insert raises, the run still returns the answer and    *)
(* sources it had assembled, and raises nothing.                           *)
(***************************************************************************)
C21_LogFailureSwallowed ==
    [][(pc = "log" /\ exception' # "CancelledError")
          => /\ pc' = "done"
             /\ exception' = "none"
             /\ final_output' = final_output
             /\ sources' = sources]_vars

C21_Witness ==
    /\ pc = "done"
    /\ LoopReturned
    /\ session_id
    /\ debate_log = <<>>
    /\ exception = "none"
    /\ final_output # <<>>

(***************************************************************************)
(* C22: document format contract: _rerank_docs accepts every pool that     *)
(* holds pseudo-documents of _inject_history_as_documents and does not     *)
(* raise, up to and including the attaching of the rerank score, also when *)
(* a pseudo-document is among the top_k_final results.                     *)
(***************************************************************************)
C22_DocumentContract ==
    fn_pc # "AttributeError"

(***************************************************************************)
(* C23: in strict mode every document retained after retrieval, by the     *)
(* verified and by the reranking pipeline, has a rerank score within       *)
(* [0, 1] that is at least RERANK_SCORE_THRESHOLD; a document without a    *)
(* score or below the threshold is neither passed to generation nor listed *)
(* in the sources.                                                         *)
(***************************************************************************)
ScoreRetained(score) ==
    score # NoScore /\ score >= RERANK_SCORE_THRESHOLD /\ score <= 10

Generating ==
    \/ pc \in {"draft", "audit", "scan", "refine", "finalize", "log"}
    \/ pc = "done" /\ LoopReturned

C23_StrictScores ==
    /\ (strict_mode /\ Generating) =>
          /\ context_docs # <<>>
          /\ \A i \in 1..Len(context_docs) :
                ScoreRetained(context_docs[i].score)
          /\ \A i \in 1..Len(sources) : ScoreRetained(sources[i].score)
    /\ (fn_pc = "generate" /\ fn_args.strict_mode) =>
          /\ fn_ret.docs # <<>>
          /\ \A i \in 1..Len(fn_ret.docs) :
                ScoreRetained(fn_ret.docs[i].score)

C23_Witness ==
    /\ strict_mode
    /\ pc = "done"
    /\ LoopReturned
    /\ \E i \in 1..Len(reranked_docs) :
          reranked_docs[i].score < RERANK_SCORE_THRESHOLD
    /\ Len(sources) = 1
    /\ sources[1].score = RERANK_SCORE_THRESHOLD

(***************************************************************************)
(* C24: threshold comparisons are inclusive: a document whose rerank score *)
(* equals RERANK_SCORE_THRESHOLD is retained by the strict-mode filter,    *)
(* and a reranked set whose best score equals RELEVANCE_GATE_THRESHOLD     *)
(* passes the relevance gate, its best documents being handed on.          *)
(***************************************************************************)
PastGate == pc \notin {"idle", "retrieve", "gate", "raised"}

GateOutcome ==
    _check_relevance_gate(RELEVANCE_GATE_ENABLED, reranked_docs, has_history)

Contains(docs, doc) == \E j \in 1..Len(docs) : docs[j] = doc

C24_InclusiveThresholds ==
    PastGate =>
      /\ strict_mode =>
            \A i \in 1..Len(GateOutcome.docs) :
               GateOutcome.docs[i].score = RERANK_SCORE_THRESHOLD
                  => /\ Generating
                     /\ Contains(context_docs, GateOutcome.docs[i])
      /\ BestScore(reranked_docs, 0) = RELEVANCE_GATE_THRESHOLD =>
            /\ GateOutcome.passed
            /\ exit_reason # "relevance_gate_failed"
            /\ Generating
            /\ \A i \in 1..Len(reranked_docs) :
                  reranked_docs[i].score = RELEVANCE_GATE_THRESHOLD
                     => Contains(context_docs, reranked_docs[i])

C24_Witness ==
    /\ RELEVANCE_GATE_ENABLED
    /\ ~has_history
    /\ strict_mode
    /\ BestScore(reranked_docs, 0) = RELEVANCE_GATE_THRESHOLD
    /\ Len(reranked_docs) = 2
    /\ pc = "done"
    /\ LoopReturned
    /\ Len(sources) = 1

(***************************************************************************)
(* C25: relevance gate with history: when the best rerank score is below   *)
(* RELEVANCE_GATE_THRESHOLD and history was supplied, the gate passes and  *)
(* hands on exactly the history pseudo-documents of the reranked set; no   *)
(* document that is not history and scores below the threshold is kept.    *)
(***************************************************************************)
HistoryOnly(docs) == SelectDocs(docs, {d \in AllDocs : d.is_history})

C25_GateWithHistory ==
    (/\ PastGate
     /\ RELEVANCE_GATE_ENABLED
     /\ has_history
     /\ BestScore(reranked_docs, 0) < RELEVANCE_GATE_THRESHOLD)
        => /\ GateOutcome.passed
           /\ GateOutcome.docs = HistoryOnly(reranked_docs)
           /\ \A i \in 1..Len(context_docs) :
                 \/ context_docs[i].is_history
                 \/ _get_score(context_docs[i]) >= RELEVANCE_GATE_THRESHOLD

(***************************************************************************)
(* C26: strict-mode refusal: a standard, reranking or verified pipeline    *)
(* run with strict_mode and no history whose retrieval yields no document  *)
(* returns a canonical refusal with empty sources and makes no LLM call.   *)
(* As claimed, the refusal is always NO_RELEVANT_DOCS_MESSAGE; in the code *)
(* the verified pipeline answers LOW_RELEVANCE_MESSAGE when its relevance  *)
(* gate is enabled.                                                        *)
(***************************************************************************)
EmptyStrictRun ==
    /\ pc = "done"
    /\ strict_mode
    /\ ~has_history
    /\ reranked_docs = <<>>

EmptyStrictApplied ==
    /\ fn_pc \in {"refused", "generate"}
    /\ fn_args.strict_mode
    /\ fn_args.relevant_history = <<>>
    /\ fn_args.documents = <<>>

NoGeneration ==
    /\ sources = <<>>
    /\ \A r \in Roles : llm_calls[r] = 0

IsNumber(value) == value.kind = "num"

FirstConfigured(request, config, env) ==
    IF IsNumber(request) THEN request
    ELSE IF IsNumber(config) THEN config
    ELSE IF IsNumber(env) THEN env
    ELSE Num(6)

C27_ConfigurationBounds ==
    fn_pc = "configured" =>
        /\ fn_ret.max_verification_attempts \in
              MIN_VERIFICATION_ATTEMPTS..MAX_VERIFICATION_ATTEMPTS_LIMIT
        /\ ~IsNumber(fn_args.max_verification_attempts) =>
              fn_ret.max_verification_attempts
                  = DEFAULT_MAX_VERIFICATION_ATTEMPTS
        /\ IsNumber(fn_ret.temperature)
        /\ fn_ret.temperature.v \in 0..20
        /\ fn_ret.temperature =
              ClampTemperature(FirstConfigured(fn_args.request,
                                               fn_args.config, fn_args.env))

(***************************************************************************)
(* C28: provider payload conformance: with an explicit call-site           *)
(* temperature t the payload built for ollama, openai, local and for       *)
(* anthropic without thinking carries t, whatever the instance's default;  *)
(* for anthropic with thinking the payload's temperature is null and a     *)
(* thinking budget is included.                                            *)
(***************************************************************************)
AnthropicThinking ==
    fn_args.llm_backend \in {"claude", "anthropic"} /\ fn_args.enable_thinking

C28_PayloadConformance ==
    (fn_pc = "payload" /\ IsNumber(fn_args.temperature)) =>
        IF AnthropicThinking
        THEN fn_ret.temperature = None /\ fn_ret.thinking
        ELSE fn_ret.temperature = fn_args.temperature /\ ~fn_ret.thinking

C28_Witness ==
    /\ fn_pc = "payload"
    /\ fn_args.llm_backend = "ollama"
    /\ IsNumber(fn_args.temperature)
    /\ fn_args.temperature # fn_args.default_temperature
    /\ fn_args.temperature = Num(0)
    /\ fn_ret.temperature = fn_args.temperature

(***************************************************************************)
(* C29: agent step dispatch: when the normalized model response has a tool *)
(* call, run_step returns a tool_call response with the name, the id and   *)
(* the arguments of the first one, arguments that came as a JSON text      *)
(* being parsed into a map; without tool call it returns an answer with    *)
(* the content; on an empty history the seed message built from the query  *)
(* is sent to the model.                                                   *)
(***************************************************************************)
StepDone == fn_pc \notin {"idle", "run_step"}

C29_StepDispatch ==
    StepDone =>
        /\ (fn_args.model_raises = "none" /\ fn_args.tool_calls # <<>>) =>
              /\ fn_pc = "returned"
              /\ fn_ret.response.type = "tool_call"
              /\ fn_ret.response.tool = fn_args.tool_calls[1].name
              /\ fn_ret.response.tool_id = fn_args.tool_calls[1].id
              /\ fn_ret.response.args.map = fn_args.tool_calls[1].args.map
              /\ fn_args.tool_calls[1].args.json = "dict" =>
                    fn_ret.response.args.form = "dict"
        /\ (fn_args.model_raises = "none" /\ fn_args.tool_calls = <<>>) =>
              /\ fn_pc = "returned"
              /\ fn_ret.response.type = "answer"
              /\ fn_ret.response.content = fn_args.content
        /\ fn_args.history = 0 => fn_ret.messages = <<"seed">>

(***************************************************************************)
(* C30: _execute_tool never raises: for every tool and every argument map  *)
(* it returns a result.  A symbol name that is empty, longer than 200      *)
(* characters or that does not match the pattern, and a file path that is  *)
(* empty, longer than 500 characters or that contains "..", give the       *)
(* {error, suggestion} result, and no backend call is made.                *)
(***************************************************************************)
ExecuteDone == fn_pc \in {"returned", "raised"}

InvalidSymbol(value) ==
    LET name == ArgGet(value, EmptyText)
    IN  /\ name.kind = "text"
        /\ name.len = 0 \/ name.len > 200 \/ ~SymbolMatches(name)

InvalidPath(value) ==
    LET path == ArgGet(value, EmptyText)
    IN  /\ path.kind = "text"
        /\ path.len = 0 \/ path.len > 500 \/ path.dotdot

Rejected ==
    \/ fn_args.name \in SymbolTools /\ InvalidSymbol(fn_args.value)
    \/ fn_args.name \in PathTools /\ InvalidPath(fn_args.value)

C30_ValidationNeverRaises ==
    ExecuteDone =>
        /\ fn_pc = "returned"
        /\ Rejected =>
              fn_ret.result = "error_suggestion" /\ fn_ret.calls = 0

C30_Witness ==
    /\ fn_pc = "returned"
    /\ fn_args.name = "find_callers"
    /\ fn_args.value.kind = "text"
    /\ fn_args.value.len = 201
    /\ fn_args.limit = "text"
    /\ fn_ret.result = "error_suggestion"

(***************************************************************************)
(* C31: every response of the backend tool service whose status is not    *)
(* 200 is mapped to a payload that holds both an error and a suggestion.   *)
(***************************************************************************)
C31_ErrorAndSuggestion ==
    (fn_pc = "returned" /\ fn_args.status # 200) =>
        {"error", "suggestion"} \subseteq fn_ret.keys

(***************************************************************************)
(* C32: reranker degradation: when the cross-encoder is unavailable, its   *)
(* prediction fails or it returns a wrong number of scores, _rerank_docs   *)
(* returns the first final_k input documents in their order without        *)
(* raising, and the run goes on to generation with those documents.        *)
(***************************************************************************)
DegradedRerankers == {"none", "predict_raises", "wrong_count"}

\* _rerank_docs was called without a usable cross-encoder
DegradedCall ==
    /\ fn_pc \notin {"idle", "_rerank_docs"}
    /\ "reranker" \in DOMAIN fn_args
    /\ fn_args.reranker \in DegradedRerankers

FirstInputDocs ==
    LET docs == _inject_history_as_documents(fn_args.documents,
                                             fn_args.relevant_history)
    IN  Take([i \in 1..Len(docs) |-> Unscored(docs[i])], fn_args.top_k_final)

\* the verified run got the documents of a degraded rerank
DegradedRun ==
    /\ fn_pc = "idle"
    /\ reranked_docs # <<>>
    /\ \A i \in 1..Len(reranked_docs) : reranked_docs[i].score = NoScore

\* _rerank_docs alone: the first final_k input documents, nothing raised
FallbackOrder ==
    DegradedCall =>
        /\ fn_pc # "AttributeError"
        /\ fn_pc = "returned" => fn_ret = FirstInputDocs

C32_RerankerDegradation ==
    /\ FallbackOrder
    /\ (DegradedCall /\ fn_pc \notin {"returned", "AttributeError"}
           /\ FirstInputDocs # <<>>) =>
          /\ fn_pc = "generate"
          /\ fn_ret.docs = FirstInputDocs
    /\ (DegradedRun /\ PastGate) =>
          /\ context_docs = reranked_docs
          /\ exit_reason \notin {"relevance_gate_failed", "no_relevant_docs",
                                  "no_context"}

(***************************************************************************)
(* C33: empty refinement: when the refiner returns an empty or             *)
(* whitespace-only answer, current_answer and the stall counter keep their *)
(* values, the refinement changes neither attempt_count nor history, and   *)
(* the loop stays active; attempt_count grows by exactly one, with one     *)
(* audit added to history, on a skeptic verdict and nowhere else.          *)
(***************************************************************************)
RefinerReturned ==
    /\ llm_calls'["refiner"] = llm_calls["refiner"] + 1
    /\ pc' # "raised"

EmptyRefinement ==
    /\ RefinerReturned
    /\ refined_answer' = <<>> \/ Strip(refined_answer') = <<>>

C33_EmptyRefinement ==
    [][ /\ EmptyRefinement =>
              /\ current_answer' = current_answer
              /\ stall_count' = stall_count
              /\ attempt_count' = attempt_count
              /\ history' = history
              /\ pc' = "audit"
        /\ RefinerReturned =>
              attempt_count' = attempt_count /\ history' = history
        /\ (attempt_count' # attempt_count \/ history' # history) =>
              /\ pc = "scan"
              /\ attempt_count' = attempt_count + 1
              /\ Len(history') = Len(history) + 1 ]_vars

C33_Witness ==
    /\ pc = "audit"
    /\ attempt_count = 1
    /\ llm_calls["refiner"] = 1
    /\ refined_answer # <<>>
    /\ Strip(refined_answer) = <<>>
    /\ current_answer = original_draft
    /\ exit_reason = "empty_refinement"

(***************************************************************************)
(* C34: bounded termination: when every outbound call returns, a verified  *)
(* run reaches a terminal outcome, after at most one draft,                *)
(* max_verification_attempts audits and max_verification_attempts - 1      *)
(* refinements, whatever the skeptic and the refiner answer.               *)
(***************************************************************************)
CallBudget ==
    /\ llm_calls["optimist"] <= 1
    /\ llm_calls["skeptic"] <= max_verification_attempts
    /\ llm_calls["refiner"] <= Max(max_verification_attempts - 1, 0)

TerminalOutcome ==
    /\ pc = "done"
    /\ exception = "none"
    /\ \/ is_final_verified
       \/ exit_reason \in {"relevance_gate_failed", "no_relevant_docs",
                            "no_context", "refinement_stalled"}
       \/ attempt_count = max_verification_attempts

C34_BoundedTermination == []CallBudget /\ <>TerminalOutcome

\* the same for run, which builds no progress event
TerminationOfRun == (mode = "run") => <>TerminalOutcome

(***************************************************************************)
(* C35: run isolation: when verified runs are interleaved at their         *)
(* suspension points, the VerificationState of each run and the answer it  *)
(* returns are those of the run executed alone on its own inputs and the   *)
(* responses to its own calls.                                             *)
(***************************************************************************)
\* the run executed alone, after n resumptions
RECURSIVE Alone(_, _)
Alone(inp, n) ==
    IF n = 0 THEN Frame("draft", NoState, <<>>)
    ELSE StepRun(Alone(inp, n - 1), inp)

\* a run is resumed at most 6 times: draft, 2 audits, refinement, log
AloneFrames(inp) == { Alone(inp, n) : n \in 0..6 }

FrameOf(r) ==
    Frame(fn_ret.frames[r].pc, fn_ret.states[r], fn_ret.frames[r].out)

HttpAttemptMade == http_clients' = http_clients + 1

C36_NoAttemptWhileOpen == [][HttpAttemptMade => ~CircuitOpen]_vars

(***************************************************************************)
(* C37: the failure counter is reset by a success only, not by the expiry  *)
(* of the recovery timeout: once the circuit has opened and the timeout    *)
(* has elapsed, one more failed attempt, with no success in between, opens *)
(* the circuit again for 60 seconds.                                       *)
(***************************************************************************)
TimeoutElapsed ==
    /\ opened_at # -1
    /\ now >= opened_at + _CODE_BUDDY_RECOVERY_TIMEOUT

FailedAttempt ==
    /\ HttpAttemptMade
    /\ failures_recorded' = failures_recorded + 1

C37_ReopensAfterTimeout ==
    [][ /\ ~HttpAttemptMade => _code_buddy_failures' = _code_buddy_failures
        /\ (TimeoutElapsed /\ FailedAttempt) =>
              /\ _code_buddy_failures' = _code_buddy_failures + 1
              /\ _code_buddy_circuit_open_until' =
                    now + _CODE_BUDDY_RECOVERY_TIMEOUT
              /\ CircuitOpen' ]_vars

C37_Witness ==
    /\ call_pc = "returned"
    /\ http_clients = 1
    /\ _code_buddy_failures = _CODE_BUDDY_FAILURE_THRESHOLD + 1
    /\ opened_at >= _CODE_BUDDY_RECOVERY_TIMEOUT
    /\ _code_buddy_circuit_open_until =
          opened_at + _CODE_BUDDY_RECOVERY_TIMEOUT
    /\ CircuitOpen

(***************************************************************************)
(* C38: failure accounting in call_code_buddy: every failed HTTP attempt   *)
(* adds exactly one to the failure counter, be it a response whose status  *)
(* is not 200 (returned at once, never retried) or a timeout or connection *)
(* error on any attempt of the retry loop; a 200 response sets the counter *)
(* to 0.                                                                   *)
(***************************************************************************)
C38_FailureAccounting ==
    [][ HttpAttemptMade =>
          /\ \/ _code_buddy_failures' = 0
             \/ _code_buddy_failures' = _code_buddy_failures + 1
          /\ call_result' = "response" => _code_buddy_failures' = 0
          /\ call_result' = "http_error" =>
                /\ _code_buddy_failures' = _code_buddy_failures + 1
                /\ call_pc' = "returned"
                /\ sleeps' = sleeps
          /\ call_result' \in {"none", "connection_failed"} =>
                _code_buddy_failures' = _code_buddy_failures + 1 ]_vars

(***************************************************************************)
(* C39: in run_with_progress every refinement_start event is followed by   *)
(* exactly one refinement_complete event before the next                   *)
(* skeptic_audit_start or the verification_complete event, whatever the    *)
(* refinement gave (valid, empty, too short, stalled).                     *)
(***************************************************************************)
ClosesRefinement(i) ==
    events[i].event_type \in {"skeptic_audit_start", "verification_complete"}

RefinementCompletes(i, j) ==
    { k \in (i + 1)..(j - 1) : events[k].event_type = "refinement_complete" }

C39_RefinementEvents ==
    \A i \in 1..Len(events) :
        events[i].event_type = "refinement_start" =>
            \A j \in (i + 1)..Len(events) :
                (/\ ClosesRefinement(j)
                 /\ \A k \in (i + 1)..(j - 1) : ~ClosesRefinement(k)) =>
                    Cardinality(RefinementCompletes(i, j)) = 1

(***************************************************************************)
(* C40: run_step never raises because the model call failed: when the LLM  *)
(* call raises an exception, run_step returns a response of type answer    *)
(* whose content reports the error, makes no tool call and leaves the      *)
(* state of the circuit breaker as it was.                                 *)
(***************************************************************************)
ModelCallFailed ==
    /\ fn_pc = "run_step"
    /\ fn_pc' # fn_pc
    /\ fn_args.model_raises # "none"

C40_ModelFailureAnswered ==
    [][ ModelCallFailed =>
          /\ fn_pc' = "returned"
          /\ fn_ret'.response.type = "answer"
          /\ fn_ret'.response.content = "Critical Agent Error"
          /\ fn_ret'.response.tool = "none"
          /\ fn_ret'.response.tool_id = "none"
          /\ http_clients' = http_clients
          /\ _code_buddy_failures' = _code_buddy_failures
          /\ _code_buddy_circuit_open_until' = _code_buddy_circuit_open_until
      ]_vars

C40_Witness ==
    /\ fn_pc = "returned"
    /\ "model_raises" \in DOMAIN fn_args
    /\ fn_args.model_raises = "ConnectionError"
    /\ fn_ret.response.type = "answer"
    /\ _code_buddy_failures = _CODE_BUDDY_FAILURE_THRESHOLD
    /\ _code_buddy_circuit_open_until = _CODE_BUDDY_RECOVERY_TIMEOUT

====
